---- MODULE Spec2Model ----
(***************************************************************************)
(* Model of src/src/extension.ts (lines 1-756, the current module; the     *)
(* text after line 757 is the superseded earlier version of the same       *)
(* file): the two-tier metadata cache, the in-flight map of item-list      *)
(* fetches, the configuration handler and the process invoker runSfJson.   *)
(*                                                                         *)
(* Time is counted in quanta of Date.now().  A day is DayMs quanta, so     *)
(* that the clock stays small; two reads of Date.now() in one synchronous  *)
(* run may still return values one quantum apart.                          *)
(***************************************************************************)
EXTENDS Integers, Sequences, FiniteSets, TLC

(***************************************************************************)
(* Bounds of the model.                                                    *)
(***************************************************************************)
NumCalls == 2      \* concurrent getMetadataTypes / getMetadataItems calls
MaxNow == 2        \* last value of the clock
DayMs == 1         \* clock quanta per day (24*60*60*1000 in the source)

(***************************************************************************)
(* Values.                                                                 *)
(***************************************************************************)
NoOrg == <<>>                      \* getCurrentOrgId() === null (falsy)
Orgs == {<<"X">>, <<"Y">>}         \* org identities the auth list knows
TypeNames == {<<"A">>, <<"B", "-">>}   \* metadata type names a user selects
CfgDays == {0, 31}                 \* values of the cacheTtlDays setting
NoTs == 0                          \* an entry without ts (!ts is true)
Calls == 1..NumCalls

Min(a, b) == IF a < b THEN a ELSE b
Max(a, b) == IF a > b THEN a ELSE b

VARIABLES
    phase,               \* "init" | "loading" | "active": progress of activate()
    enableCache,         \* setting nakodx-file-retriever.enableCache
    cacheTtlDays,        \* setting nakodx-file-retriever.cacheTtlDays
    TTL_MS,              \* let TTL_MS
    cacheDirectory,      \* TRUE once initializeCacheDirectory has set it
    metadataTypesCache,  \* CachedMetadataTypes | null
    metadataItemsCache,  \* Map<string, CachedMetadataItems>
    inflightItems,       \* Map<string, Promise<MetadataItem[]>>, by owning call
    disk,                \* files of the cache directory: name -> content
    now,                 \* Date.now()
    activeOrg,           \* the org the CLI's target-org points at
    calls,               \* the running calls of the data providers
    hist,                \* history of the calls, kept beside the program's state
    probe                \* inputs and results of the pure functions and of runSfJson

vars == <<phase, enableCache, cacheTtlDays, TTL_MS, cacheDirectory,
          metadataTypesCache, metadataItemsCache, inflightItems, disk, now,
          activeOrg, calls, hist, probe>>

cacheVars == <<metadataTypesCache, metadataItemsCache, disk>>
configVars == <<enableCache, cacheTtlDays, TTL_MS>>

(***************************************************************************)
(* Cache keys and cache file names.  A name is a sequence of characters,   *)
(* so that replace() and startsWith() are computed as the code does.       *)
(***************************************************************************)
AlphaNum == {"A", "B", "X", "Y", "0", "1"}

RECURSIVE safeMetadataType(_)
safeMetadataType(s) ==
    IF s = <<>> THEN <<>>
    ELSE <<IF Head(s) \in AlphaNum THEN Head(s) ELSE "_">> \o safeMetadataType(Tail(s))

getMetadataTypesCachePath(orgId) ==
    <<"metadata-types-">> \o orgId \o <<".json">>

getMetadataItemsCachePath(orgId, metadataType) ==
    <<"metadata-items-">> \o orgId \o <<"-">> \o safeMetadataType(metadataType) \o <<".json">>

NoKey == <<>>                      \* cacheKey === undefined
cacheKeyOf(orgId, metadataType) ==
    IF orgId = NoOrg THEN NoKey ELSE orgId \o <<":">> \o metadataType

startsWith(s, p) == Len(s) >= Len(p) /\ SubSeq(s, 1, Len(p)) = p

(***************************************************************************)
(* Freshness.                                                              *)
(***************************************************************************)
\* a freshness test that still accepts an entry whose age equals the TTL
isFresh_Inclusive(ts) ==
    IF ts = NoTs THEN TRUE ELSE (now - ts) <= TTL_MS

isFresh(ts) ==
    IF ts = NoTs THEN TRUE ELSE (now - ts) < TTL_MS

(***************************************************************************)
(* What the external tool answers: the list of org `o` for type `t` as it  *)
(* is at time `n` (t = <<>> for the type catalog).                         *)
(***************************************************************************)
Payload(o, t, n) == [org |-> o, type |-> t, ver |-> n]
NoPayload == Payload(NoOrg, <<>>, 0)

TypesEntry(o, p, ts) == [orgId |-> o, metadataTypes |-> p, ts |-> ts]
ItemsEntry(o, t, p, ts) == [orgId |-> o, metadataType |-> t, items |-> p, ts |-> ts]

EmptyMap == [x \in {} |-> 0]
MapSet(m, k, v) == [x \in DOMAIN m \cup {k} |-> IF x = k THEN v ELSE m[x]]
\* a delete that leaves the key in the map
MapDelete_Keep(m, k) == m

MapDelete(m, k) == [x \in DOMAIN m \ {k} |-> m[x]]

(***************************************************************************)
(* JSON.stringify({...cache, ts}) and JSON.parse of a cache file.  A file  *)
(* holds either the text of an entry or text that does not parse.          *)
(***************************************************************************)
Stringify(entry, ts) == [json |-> TRUE, value |-> [entry EXCEPT !.ts = ts]]
Garbage == [json |-> FALSE, value |-> TypesEntry(NoOrg, NoPayload, NoTs)]
\* a parser that rejects every text
Parse_Throws(content) == <<>>

\* <<entry>> when the text parses, <<>> when JSON.parse throws
Parse(content) == IF content.json THEN <<content.value>> ELSE <<>>

(***************************************************************************)
(* A call of getMetadataTypes or getMetadataItems.                         *)
(*   pc: "idle"  not called                                                *)
(*       "orgId" awaiting getCurrentOrgId()                                *)
(*       "disk"  awaiting loadMetadata...FromDisk (readFile)               *)
(*       "fetch" awaiting runSfJson (its own process runs)                 *)
(*       "save"  awaiting saveMetadata...ToDisk (writeFile)                *)
(*       "join"  returned the promise found in inflightItems               *)
(*       "done"  settled                                                   *)
(***************************************************************************)
NoResult == [state |-> "pending", value |-> NoPayload, error |-> ""]
Resolved(p) == [state |-> "resolved", value |-> p, error |-> ""]
Rejected(e) == [state |-> "rejected", value |-> NoPayload, error |-> e]

IdleCall ==
    [pc |-> "idle", op |-> "none", metadataType |-> <<>>, cachingEnabled |-> FALSE,
     orgId |-> NoOrg, waitsOn |-> 0, items |-> NoPayload,
     stamp |-> NoTs, result |-> NoResult, spawned |-> 0, from |-> "none"]

keyOf(c) == IF calls[c].op = "items"
            THEN cacheKeyOf(calls[c].orgId, calls[c].metadataType)
            ELSE NoKey

(***************************************************************************)
(* Cache files an earlier session may have left: none, or an item list     *)
(* written before entries carried ts together with a stamped type catalog. *)
(***************************************************************************)
OldItems == ItemsEntry(<<"X">>, <<"A">>, Payload(<<"X">>, <<"A">>, 0), NoTs)
OldTypes == TypesEntry(<<"X">>, Payload(<<"X">>, <<>>, 0), 1)
InitDisks ==
    { EmptyMap,
      MapSet(MapSet(EmptyMap, getMetadataItemsCachePath(<<"X">>, <<"A">>),
                    Stringify(OldItems, NoTs)),
             getMetadataTypesCachePath(<<"X">>), Stringify(OldTypes, 1)) }

\* the module's globals (lines 58-68) before activate runs
InitGlobals ==
    /\ phase = "init"
    /\ TTL_MS = 30 * DayMs
    /\ cacheDirectory = FALSE
    /\ metadataTypesCache = <<>>
    /\ metadataItemsCache = EmptyMap
    /\ inflightItems = EmptyMap
    /\ calls = [c \in Calls |-> IdleCall]
    /\ hist = [purged |-> {}, overlap |-> {}, cold |-> {}]

Init ==
    /\ InitGlobals
    /\ enableCache \in BOOLEAN
    /\ cacheTtlDays \in CfgDays
    /\ disk \in InitDisks
    /\ now = 1
    /\ activeOrg = <<"X">>
    /\ probe = <<>>

(***************************************************************************)
(* applyConfigSettings (lines 531-561), as a transformation of the state.  *)
(***************************************************************************)
\* a TTL taken from the setting as it is
ClampDays_None(d) == d

ClampDays(d) == Min(30, Max(1, d))

\* config.get(key, defaultValue): the setting, or the default when unset
ConfigGet(setting, defaultValue) == IF setting = <<>> THEN defaultValue ELSE setting[1]

IsCacheFile(f) == startsWith(f, <<"metadata-types-">>) \/ startsWith(f, <<"metadata-items-">>)

applyConfigSettings(enabled, days) ==
    /\ TTL_MS' = ClampDays(days) * DayMs
    /\ IF ~enabled
       THEN /\ metadataTypesCache' = <<>>
            /\ metadataItemsCache' = EmptyMap
            /\ disk' = IF cacheDirectory
                       THEN [f \in {g \in DOMAIN disk : ~IsCacheFile(g)} |-> disk[f]]
                       ELSE disk
       ELSE UNCHANGED cacheVars

(***************************************************************************)
(* activate (lines 351-393).  ActivateStart is its synchronous head:       *)
(* applyConfigSettings, the configuration listener, the cache directory    *)
(* and the readdir of loadAllCachesFromDisk.  ActivateLoaded is the rest   *)
(* of loadAllCachesFromDisk and the registration of the commands.          *)
(***************************************************************************)
ActivateStart ==
    /\ phase = "init"
    /\ applyConfigSettings(enableCache, cacheTtlDays)
    /\ cacheDirectory' = TRUE
    /\ phase' = "loading"
    /\ UNCHANGED <<enableCache, cacheTtlDays, inflightItems, now, activeOrg, calls, probe>>

IsItemsFile(f) == startsWith(f, <<"metadata-items-">>) /\ f[Len(f)] = ".json"

\* a scan that gives up at the first file it cannot use
LoadableFiles_StopAtBad ==
    IF \E f \in DOMAIN disk :
          IsItemsFile(f) /\ (Parse(disk[f]) = <<>> \/ ~isFresh(Parse(disk[f])[1].ts))
    THEN {} ELSE {f \in DOMAIN disk : IsItemsFile(f)}

\* the entries loadAllCachesFromDisk sets, one per readable fresh file
LoadableFiles ==
    {f \in DOMAIN disk : IsItemsFile(f) /\ Parse(disk[f]) # <<>> /\ isFresh(Parse(disk[f])[1].ts)}

RECURSIVE loadAll(_, _)
loadAll(m, files) ==
    IF files = {} THEN m
    ELSE LET f == CHOOSE g \in files : TRUE
             cache == Parse(disk[f])[1]
         IN loadAll(MapSet(m, cacheKeyOf(cache.orgId, cache.metadataType), cache),
                    files \ {f})

ActivateLoaded ==
    /\ phase = "loading"
    /\ metadataItemsCache' = loadAll(metadataItemsCache, LoadableFiles)
    /\ phase' = "active"
    /\ UNCHANGED <<configVars, cacheDirectory, metadataTypesCache, inflightItems, disk,
                   now, activeOrg, calls, probe>>

(***************************************************************************)
(* The user edits the settings.  Once activate has registered its          *)
(* listener (line 360) the change runs applyConfigSettings.                *)
(***************************************************************************)
ChangeConfig(enabled, days) ==
    /\ <<enabled, days>> # <<enableCache, cacheTtlDays>>
    /\ enableCache' = enabled
    /\ cacheTtlDays' = days
    /\ IF phase = "init"
       THEN UNCHANGED <<TTL_MS, cacheVars>>
       ELSE applyConfigSettings(enabled, days)
    /\ UNCHANGED <<phase, cacheDirectory, inflightItems, now, activeOrg, calls, probe>>

(***************************************************************************)
(* The environment: the clock advances, the user points the CLI at         *)
(* another org.                                                            *)
(***************************************************************************)
Tick ==
    /\ now < MaxNow
    /\ now' = now + 1
    /\ UNCHANGED <<phase, configVars, cacheDirectory, cacheVars, inflightItems,
                   activeOrg, calls, probe>>

SwitchOrg(o) ==
    /\ o # activeOrg
    /\ activeOrg' = o
    /\ UNCHANGED <<phase, configVars, cacheDirectory, cacheVars, inflightItems,
                   now, calls, probe>>

(***************************************************************************)
(* The data providers getMetadataTypes (lines 442-476) and                 *)
(* getMetadataItems (lines 478-528).  Each action is one run of the call   *)
(* between two suspension points.                                          *)
(***************************************************************************)
\* a read guard that never lets a call read the cache
ReadsCache_Never(enabled, orgId) == FALSE

\* `useCache && currentOrgId` (454), `cacheKey && cachingEnabled` (489)
ReadsCache(enabled, orgId) == enabled /\ orgId # NoOrg

\* a write guard that forgets the identity
WritesCache_AnyOrg(enabled, orgId) == enabled

\* `cachingEnabled && currentOrgId` (470), `cachingEnabled && cacheKey && currentOrgId` (508)
WritesCache(enabled, orgId) == enabled /\ orgId # NoOrg

\* a coalescing test that never finds the key
Coalesces_Never(key) == FALSE

\* `cacheKey && inflightItems.has(cacheKey)` (502)
Coalesces(key) == key # NoKey /\ key \in DOMAIN inflightItems

\* a fetch that is never entered in inflightItems
Registers_Never(enabled, key) == FALSE

\* `cacheKey && cachingEnabled` (522, 526)
Registers(enabled, key) == key # NoKey /\ enabled

CachePath(op, orgId, metadataType) ==
    IF op = "types" THEN getMetadataTypesCachePath(orgId)
    ELSE getMetadataItemsCachePath(orgId, metadataType)

\* a memory test that never finds an entry
MemoryHit_Never(op, orgId, metadataType) == <<>>

\* the memory tier's answer: <<payload>> for a fresh entry, <<>> otherwise
MemoryHit(op, orgId, metadataType) ==
    IF op = "types"
    THEN IF /\ metadataTypesCache # <<>>
            /\ metadataTypesCache[1].orgId = orgId
            /\ isFresh(metadataTypesCache[1].ts)
         THEN <<metadataTypesCache[1].metadataTypes>> ELSE <<>>
    ELSE LET key == cacheKeyOf(orgId, metadataType) IN
         IF key \in DOMAIN metadataItemsCache /\ isFresh(metadataItemsCache[key].ts)
         THEN <<metadataItemsCache[key].items>> ELSE <<>>

\* loadMetadataTypesFromDisk / loadMetadataItemsFromDisk once readFile is done
LoadFromDisk(path) ==
    IF path \in DOMAIN disk /\ Parse(disk[path]) # <<>> /\ isFresh(Parse(disk[path])[1].ts)
    THEN Parse(disk[path]) ELSE <<>>

\* lines 502-522: return the promise in flight, or start the process
StartOrJoin(cs, c) ==
    LET key == IF cs[c].op = "items" THEN cacheKeyOf(cs[c].orgId, cs[c].metadataType)
               ELSE NoKey
    IN IF cs[c].op = "items" /\ Coalesces(key)
       THEN /\ calls' = [cs EXCEPT ![c].pc = "join", ![c].waitsOn = inflightItems[key],
                                   ![c].from = "inflight"]
            /\ UNCHANGED inflightItems
       ELSE /\ calls' = [cs EXCEPT ![c].pc = "fetch", ![c].spawned = @ + 1,
                                   ![c].from = "fetch"]
            /\ inflightItems' = IF cs[c].op = "items" /\ Registers(cs[c].cachingEnabled, key)
                                THEN MapSet(inflightItems, key, c)
                                ELSE inflightItems

\* the promise of call c settles: its `finally` (526) and every call that
\* returned the same promise
Settle(cs, c, res) ==
    /\ calls' = [j \in Calls |->
                   IF j = c \/ (cs[j].pc = "join" /\ cs[j].waitsOn = c)
                   THEN [cs[j] EXCEPT !.pc = "done", !.result = res,
                                      !.items = NoPayload, !.stamp = NoTs]
                   ELSE cs[j]]
    /\ inflightItems' = IF calls[c].op = "items" /\ Registers(calls[c].cachingEnabled, keyOf(c))
                        THEN MapDelete(inflightItems, keyOf(c))
                        ELSE inflightItems

Call(c, op, t) ==
    /\ phase = "active"
    /\ calls[c].pc = "idle"
    /\ \A b \in Calls : b < c => calls[b].pc # "idle"
    /\ calls' = [calls EXCEPT ![c] = [IdleCall EXCEPT !.pc = "orgId", !.op = op,
                                        !.metadataType = t,
                                        !.cachingEnabled = enableCache]]
    /\ UNCHANGED <<phase, configVars, cacheDirectory, cacheVars, inflightItems, now,
                   activeOrg, probe>>

\* getCurrentOrgId returns o; the call runs to its next suspension point
OrgIdResolved(c, o) ==
    /\ calls[c].pc = "orgId"
    /\ o \in {activeOrg, NoOrg}
    /\ LET cs == [calls EXCEPT ![c].orgId = o]
           op == calls[c].op
           t == calls[c].metadataType
           hit == MemoryHit(op, o, t)
       IN IF ReadsCache(calls[c].cachingEnabled, o)
          THEN IF hit # <<>>
               THEN /\ calls' = [cs EXCEPT ![c].pc = "done", ![c].result = Resolved(hit[1]),
                                           ![c].from = "memory"]
                    /\ UNCHANGED inflightItems
               ELSE IF CachePath(op, o, t) \in DOMAIN disk
                    THEN /\ calls' = [cs EXCEPT ![c].pc = "disk"]
                         /\ UNCHANGED inflightItems
                    ELSE StartOrJoin(cs, c)
          ELSE StartOrJoin(cs, c)
    /\ UNCHANGED <<phase, configVars, cacheDirectory, cacheVars, now, activeOrg, probe>>

\* readFile is done: lines 160-162 / 183-185, then 459-462 / 495-498
DiskRead(c) ==
    /\ calls[c].pc = "disk"
    /\ LET op == calls[c].op
           o == calls[c].orgId
           t == calls[c].metadataType
           diskCache == LoadFromDisk(CachePath(op, o, t))
       IN IF diskCache # <<>>
          THEN /\ IF op = "types"
                  THEN /\ metadataTypesCache' = diskCache
                       /\ UNCHANGED metadataItemsCache
                       /\ calls' = [calls EXCEPT ![c].pc = "done", ![c].from = "disk",
                                      ![c].result = Resolved(diskCache[1].metadataTypes)]
                  ELSE /\ metadataItemsCache' =
                            MapSet(metadataItemsCache, cacheKeyOf(o, t), diskCache[1])
                       /\ UNCHANGED metadataTypesCache
                       /\ calls' = [calls EXCEPT ![c].pc = "done", ![c].from = "disk",
                                      ![c].result = Resolved(diskCache[1].items)]
               /\ UNCHANGED inflightItems
          ELSE /\ StartOrJoin(calls, c)
               /\ UNCHANGED <<metadataTypesCache, metadataItemsCache>>
    /\ UNCHANGED <<phase, configVars, cacheDirectory, disk, now, activeOrg, probe>>

\* the process of call c exits and runSfJson settles (lines 466-473, 505-517)
ProcClose(c, ok, d) ==
    /\ calls[c].pc = "fetch"
    /\ d \in {now, Min(now + 1, MaxNow)}
    /\ LET op == calls[c].op
           o == calls[c].orgId
           t == calls[c].metadataType
           p == Payload(activeOrg, t, now)
       IN IF ~ok
          THEN /\ Settle(calls, c, Rejected("failed"))
               /\ UNCHANGED <<metadataTypesCache, metadataItemsCache, now>>
          ELSE IF WritesCache(calls[c].cachingEnabled, o)
          THEN /\ IF op = "types"
                  THEN /\ metadataTypesCache' = <<TypesEntry(o, p, now)>>
                       /\ UNCHANGED metadataItemsCache
                  ELSE /\ metadataItemsCache' =
                            MapSet(metadataItemsCache, cacheKeyOf(o, t), ItemsEntry(o, t, p, now))
                       /\ UNCHANGED metadataTypesCache
               \* the second Date.now(), in save...ToDisk (172, 195)
               /\ now' = d
               /\ calls' = [calls EXCEPT ![c].pc = "save", ![c].items = p, ![c].stamp = d]
               /\ UNCHANGED inflightItems
          ELSE /\ Settle(calls, c, Resolved(p))
               /\ UNCHANGED <<metadataTypesCache, metadataItemsCache, now>>
    /\ UNCHANGED <<phase, configVars, cacheDirectory, disk, activeOrg, probe>>

\* a save whose write error reaches the caller
AfterSave_Throws(written, items) ==
    IF written THEN Resolved(items) ELSE Rejected("EIO")

\* save...ToDisk catches the write error (173-175), then `return types` (475)
\* or `return items` (519)
AfterSave(written, items) == Resolved(items)

\* writeFile is done (written = FALSE: it failed and the error was logged)
SaveDone(c, written) ==
    /\ calls[c].pc = "save"
    /\ LET op == calls[c].op
           o == calls[c].orgId
           t == calls[c].metadataType
           cache == IF op = "types" THEN TypesEntry(o, calls[c].items, NoTs)
                    ELSE ItemsEntry(o, t, calls[c].items, NoTs)
       IN disk' = IF written
                  THEN MapSet(disk, CachePath(op, o, t), Stringify(cache, calls[c].stamp))
                  ELSE disk
    /\ Settle(calls, c, AfterSave(written, calls[c].items))
    /\ UNCHANGED <<phase, configVars, cacheDirectory, metadataTypesCache, metadataItemsCache,
                   now, activeOrg, probe>>

\* the user cancels the progress notification of call c while its process
\* runs: the listener (239-242) kills the process and rejects
Cancel(c) ==
    /\ calls[c].pc = "fetch"
    /\ Settle(calls, c, Rejected("Operation cancelled"))
    /\ UNCHANGED <<phase, configVars, cacheDirectory, cacheVars, now, activeOrg, probe>>

CallOps == {<<"types", <<>> >>} \cup {<<"items", t>> : t \in TypeNames}

(***************************************************************************)
(* History kept beside the program's state:                                *)
(*   purged   the calls that had begun when applyConfigSettings last       *)
(*            purged the caches                                            *)
(*   overlap  the pairs of calls that ran at the same time                 *)
(*   cold     the calls that began while neither tier held a fresh entry   *)
(*            for their key                                                *)
(***************************************************************************)
MemoryTs(op, orgId, metadataType) ==
    IF op = "types"
    THEN IF metadataTypesCache # <<>> /\ metadataTypesCache[1].orgId = orgId
         THEN metadataTypesCache[1].ts ELSE NoTs
    ELSE IF cacheKeyOf(orgId, metadataType) \in DOMAIN metadataItemsCache
         THEN metadataItemsCache[cacheKeyOf(orgId, metadataType)].ts ELSE NoTs

Active(c) == calls[c].pc \notin {"idle", "done"}

NoHistory == UNCHANGED hist

PurgeHistory ==
    hist' = [hist EXCEPT !.purged = IF phase' # "init" /\ ~enableCache'
                                    THEN {c \in Calls : calls[c].pc # "idle"} ELSE @]

CallHistory(c, op, t) ==
    hist' = [hist EXCEPT
               !.overlap = @ \cup {{c, b} : b \in {a \in Calls : Active(a)}},
               !.cold = IF /\ MemoryHit(op, activeOrg, t) = <<>>
                           /\ LoadFromDisk(CachePath(op, activeOrg, t)) = <<>>
                        THEN @ \cup {c} ELSE @]

(***************************************************************************)
(* Spec: two commands, one after the other.  The user runs a data          *)
(* provider and, when it has returned, a second one; meanwhile the user    *)
(* edits the settings, points the CLI at another org and cancels, the      *)
(* clock advances, and processes and file writes succeed or fail.          *)
(***************************************************************************)
Successive == {1, 2}
Busy == \E c \in Calls : Active(c)

Next ==
    \/ ActivateStart /\ PurgeHistory
    \/ ActivateLoaded /\ NoHistory
    \/ \E enabled \in BOOLEAN, days \in CfgDays : ChangeConfig(enabled, days) /\ PurgeHistory
    \/ Tick /\ NoHistory
    \/ \E o \in Orgs : activeOrg = <<"X">> /\ SwitchOrg(o) /\ NoHistory
    \/ \E c \in Successive, a \in CallOps : ~Busy /\ Call(c, a[1], a[2]) /\ NoHistory
    \/ \E c \in Successive, o \in Orgs \cup {NoOrg} : OrgIdResolved(c, o) /\ NoHistory
    \/ \E c \in Successive : DiskRead(c) /\ NoHistory
    \/ \E c \in Successive, ok \in BOOLEAN, d \in 1..MaxNow : ProcClose(c, ok, d) /\ NoHistory
    \/ \E c \in Successive, written \in BOOLEAN : SaveDone(c, written) /\ NoHistory
    \/ \E c \in Successive : Cancel(c) /\ NoHistory

Spec == Init /\ [][Next]_vars

(***************************************************************************)
(* SpecConc: concurrent getMetadataItems calls for the active org.  The    *)
(* user toggles enableCache and cancels a running fetch; the identity      *)
(* resolver, the process and the file write succeed or fail.               *)
(***************************************************************************)
GarbageDisk == MapSet(EmptyMap, getMetadataItemsCachePath(<<"X">>, <<"A">>), Garbage)

InitConc ==
    /\ Init
    /\ cacheTtlDays = 31
    /\ activeOrg = <<"X">>
    /\ disk \in {EmptyMap, GarbageDisk}

NextConc ==
    \/ ActivateStart /\ NoHistory
    \/ ActivateLoaded /\ NoHistory
    \/ ChangeConfig(~enableCache, cacheTtlDays) /\ NoHistory
    \/ \E c \in Calls, t \in TypeNames : Call(c, "items", t) /\ CallHistory(c, "items", t)
    \/ \E c \in Calls, o \in {activeOrg, NoOrg} : OrgIdResolved(c, o) /\ NoHistory
    \/ \E c \in Calls : DiskRead(c) /\ NoHistory
    \/ \E c \in Calls, ok \in BOOLEAN : ProcClose(c, ok, now) /\ NoHistory
    \/ \E c \in Calls, written \in BOOLEAN : SaveDone(c, written) /\ NoHistory
    \/ \E c \in Calls : Cancel(c) /\ NoHistory

SpecConc == InitConc /\ [][NextConc]_vars

(***************************************************************************)
(* SpecFresh: isFresh (lines 150-153) applied to a timestamp `probe.ts`    *)
(* at every clock value and under every TTL.  The timestamp is absent      *)
(* (NoTs) or a value Date.now() has returned, before or after `now`.       *)
(***************************************************************************)
MaxFreshNow == 6                   \* last clock value
FreshDays == {0, 1, 2, 3, 31}      \* cacheTtlDays settings tried

InitFresh ==
    /\ InitGlobals
    /\ enableCache = TRUE
    /\ cacheTtlDays = 31
    /\ disk = EmptyMap
    /\ now = 1
    /\ activeOrg = <<"X">>
    /\ \E ts \in {NoTs} \cup (1..MaxFreshNow) :
          probe = [fn |-> "isFresh", ts |-> ts, at |-> 0, ttl |-> 0, fresh |-> <<>>]

\* isFresh(probe.ts) is called; `at` and `ttl` record what it was judged by
IsFreshCalled ==
    /\ probe' = [probe EXCEPT !.fresh = <<isFresh(probe.ts)>>, !.at = now, !.ttl = TTL_MS]
    /\ UNCHANGED <<phase, configVars, cacheDirectory, cacheVars, inflightItems, now,
                   activeOrg, calls, hist>>

FreshTick ==
    /\ now < MaxFreshNow
    /\ now' = now + 1
    /\ UNCHANGED <<phase, configVars, cacheDirectory, cacheVars, inflightItems,
                   activeOrg, calls, hist, probe>>

\* the cacheTtlDays setting changes: applyConfigSettings, lines 533-534
FreshTtlChanged(days) ==
    /\ days # cacheTtlDays
    /\ cacheTtlDays' = days
    /\ TTL_MS' = ClampDays(days) * DayMs
    /\ UNCHANGED <<phase, enableCache, cacheDirectory, cacheVars, inflightItems, now,
                   activeOrg, calls, hist, probe>>

\* the cacheTtlDays setting is removed: config.get returns its default
FreshTtlUnset == FreshTtlChanged(ConfigGet(<<>>, 30))

NextFresh ==
    \/ IsFreshCalled
    \/ FreshTick
    \/ \E days \in FreshDays : FreshTtlChanged(ConfigGet(<<days>>, 30))
    \/ FreshTtlUnset

SpecFresh == InitFresh /\ [][NextFresh]_vars

(***************************************************************************)
(* The process invoker runSfJson (lines 229-294) and the result            *)
(* interpreter buildHumanMessage (lines 297-324).                          *)
(*                                                                         *)
(* A string is a sequence of pieces, "" is <<>>, and an optional value is  *)
(* a sequence of length 0 or 1.  Standard output is the text written so    *)
(* far; the text of a JSON document d is <<"{", d, "}">>, so that a        *)
(* document cut short, or text that is no JSON, does not parse.            *)
(***************************************************************************)
NoMessages == [kind |-> "none", items |-> <<>>, text |-> <<>>]
ArrayOf(items) == [kind |-> "array", items |-> items, text |-> <<>>]
StringOf(text) == [kind |-> "string", items |-> <<>>, text |-> text]
Msg(problem, message) == [problem |-> problem, message |-> message]
File(state, error, problem) == [state |-> state, error |-> error, problem |-> problem]

\* type SfRetrieve (lines 39-53) with the fields the code reads
Doc(status, message, code, context, exitCode, messages, files) ==
    [status |-> status, message |-> message, code |-> code, context |-> context,
     exitCode |-> exitCode, result |-> [messages |-> messages, files |-> files]]

RECURSIVE TrimStart(_)
TrimStart(t) == IF t # <<>> /\ Head(t) = " " THEN TrimStart(Tail(t)) ELSE t
RECURSIVE TrimEnd(_)
TrimEnd(t) == IF t # <<>> /\ t[Len(t)] = " " THEN TrimEnd(SubSeq(t, 1, Len(t) - 1)) ELSE t
Trim(t) == TrimEnd(TrimStart(t))

\* m.problem || m.message || m (309)
MsgText(m) == IF m.problem # <<>> THEN m.problem
              ELSE IF m.message # <<>> THEN m.message
              ELSE <<"[object Object]">>

RECURSIVE Join(_, _)
Join(texts, sep) ==
    IF texts = <<>> THEN <<>>
    ELSE IF Len(texts) = 1 THEN texts[1]
    ELSE texts[1] \o sep \o Join(Tail(texts), sep)

\* files.find(f => f?.state === 'Failed' || f?.error) (317)
RECURSIVE FindFailed(_)
FindFailed(files) ==
    IF files = <<>> THEN <<>>
    ELSE IF Head(files).state = "Failed" \/ Head(files).error # <<>> THEN <<Head(files)>>
    ELSE FindFailed(Tail(files))

\* a result interpreter that leaves the code out of the message
buildHumanMessage_NoCode(json) == json.message

\* a result interpreter that reads only the top-level fields
buildHumanMessage_TopOnly(json) ==
    IF json.message # <<>>
    THEN IF json.code # <<>> THEN json.message \o <<" [">> \o json.code \o <<"]">>
         ELSE json.message
    ELSE IF json.code # <<>> THEN <<"Command failed [">> \o json.code \o <<"]">>
    ELSE <<>>

buildHumanMessage(json) ==
    LET msgs == json.result.messages
        joined == Join([i \in 1..Len(msgs.items) |-> MsgText(msgs.items[i])], <<"; ">>)
        failed == FindFailed(json.result.files)
        generic == IF json.code # <<>> THEN <<"Command failed [">> \o json.code \o <<"]">>
                   ELSE <<>>
        fromFiles == IF failed # <<>> /\ failed[1].error # <<>> THEN failed[1].error
                     ELSE IF failed # <<>> /\ failed[1].problem # <<>> THEN failed[1].problem
                     ELSE generic
    IN IF json.message # <<>>
       THEN IF json.code # <<>> THEN json.message \o <<" [">> \o json.code \o <<"]">>
            ELSE json.message
       ELSE IF msgs.kind = "array" /\ Len(msgs.items) > 0
       THEN IF msgs.items[1].problem # <<>> THEN msgs.items[1].problem
            ELSE IF joined # <<>> THEN joined
            ELSE fromFiles
       ELSE IF msgs.kind = "string" /\ Trim(msgs.text) # <<>>
       THEN Trim(msgs.text)
       ELSE fromFiles

JsonText(d) == <<"{", d, "}">>

\* tryParse (254-256): <<json>>, or <<>> when JSON.parse throws
tryParse(out) ==
    IF Len(out) = 3 /\ out[1] = "{" /\ out[3] = "}" THEN <<out[2]>> ELSE <<>>

Args == <<"org list metadata">>
CodeText(code) == IF code = <<>> THEN "null" ELSE ToString(code[1])
\* `sf ${args.join(' ')} failed with exit ${code}` (263, 273)
FailedWithExit(code) == <<"sf ">> \o Args \o <<" failed with exit ", CodeText(code)>>
InvalidJson == <<"Invalid JSON from sf ">> \o Args

\* new SfCliError(message, opts) (73-86)
SfCliError(message, codeStr, context, status, exitCode, stderr, rawJson) ==
    [name |-> "SfCliError", message |-> message, codeStr |-> codeStr, context |-> context,
     status |-> status, exitCode |-> exitCode, stderr |-> stderr, rawJson |-> rawJson]
PlainError(message) == SfCliError(message, <<>>, <<>>, <<>>, <<>>, <<>>, <<>>)
\* new Error(message)
JsError(message) == [PlainError(message) EXCEPT !.name = "Error"]

Pending == [state |-> "pending", value |-> <<>>, error |-> <<>>]
Fulfilled(v) == [state |-> "resolved", value |-> <<v>>, error |-> <<>>]
Failed(e) == [state |-> "rejected", value |-> <<>>, error |-> <<e>>]

\* resolve / reject of `new Promise` (234): the first call settles it
settle(promise, outcome) == IF promise.state = "pending" THEN outcome ELSE promise

\* a test of the payload's status that lets every status pass
StatusFailed_Never(json) == FALSE

\* `typeof json.status === 'number' && json.status !== 0` (280)
StatusFailed(json) == json.status # <<>> /\ json.status[1] # 0

\* what the 'close' handler (253-292) settles the promise with
onClose(code, out, err) ==
    LET parsed == tryParse(out) IN
    IF code # <<0>>
    THEN IF parsed # <<>>
         THEN LET json == parsed[1]
                  human == buildHumanMessage(json)
                  message == IF human # <<>> THEN human
                             ELSE IF err # <<>> THEN err ELSE FailedWithExit(code)
              IN Failed(SfCliError(message, json.code, json.context, json.status,
                                   IF code # <<>> THEN code ELSE json.exitCode,
                                   err, <<json>>))
         ELSE Failed(SfCliError(IF err # <<>> THEN err ELSE FailedWithExit(code),
                                <<>>, <<>>, <<>>, code, err, <<>>))
    ELSE IF parsed = <<>>
    THEN Failed(PlainError(InvalidJson))
    ELSE IF StatusFailed(parsed[1])
    THEN LET json == parsed[1]
             human == buildHumanMessage(json)
         IN Failed(SfCliError(IF human # <<>> THEN human ELSE <<"Command failed">>,
                              json.code, json.context, json.status, <<>>, err, <<json>>))
    ELSE Fulfilled(parsed[1])

\* a cancellation listener that kills the process and leaves the promise
onCancellationRequested_KillOnly(promise) == promise

\* the listener of lines 239-242, after cp.kill()
onCancellationRequested(promise) ==
    settle(promise, Failed(PlainError(<<"Operation cancelled">>)))

(***************************************************************************)
(* SpecRun: one call of runSfJson.  The process writes its output piece    *)
(* by piece and exits with any code at any point; the spawn may fail; the  *)
(* user may cancel at any time.                                            *)
(***************************************************************************)
InvalidType ==
    Doc(<<1>>, <<"INVALID_TYPE">>, <<"INVALID_TYPE">>, <<>>, <<>>, NoMessages, <<>>)

Docs ==
    { Doc(<<0>>, <<>>, <<>>, <<>>, <<>>, NoMessages, <<>>),
      Doc(<<>>, <<>>, <<>>, <<>>, <<>>, NoMessages, <<>>),
      InvalidType,
      Doc(<<1>>, <<>>, <<>>, <<"ctx">>, <<1>>, NoMessages, <<>>),
      Doc(<<1>>, <<>>, <<"ERR">>, <<>>, <<>>, NoMessages, <<>>),
      Doc(<<1>>, <<>>, <<>>, <<>>, <<>>,
          ArrayOf(<<Msg(<<>>, <<"M1">>), Msg(<<"P2">>, <<>>)>>), <<>>),
      Doc(<<1>>, <<>>, <<>>, <<>>, <<>>, StringOf(<<" ", "S1", " ">>),
          <<File("Failed", <<"E1">>, <<>>)>>),
      Doc(<<0>>, <<>>, <<>>, <<>>, <<>>, NoMessages,
          <<File("Changed", <<>>, <<>>), File("Failed", <<>>, <<"P3">>)>>) }

StdoutTexts == {JsonText(d) : d \in Docs} \cup {<<>>, <<"Warning: update available">>}
StderrTexts == {<<>>, <<"boom">>}
ExitCodes == {<<>>, <<0>>, <<1>>}

InitRun ==
    /\ InitGlobals
    /\ enableCache = TRUE
    /\ cacheTtlDays = 31
    /\ disk = EmptyMap
    /\ now = 1
    /\ activeOrg = <<"X">>
    /\ \E text \in StdoutTexts, errText \in StderrTexts :
          probe = [fn |-> "runSfJson", text |-> text, errText |-> errText,
                   cp |-> "running", out |-> <<>>, err |-> <<>>, code |-> <<>>,
                   cancelled |-> FALSE, promise |-> Pending]

RunFrame == UNCHANGED <<phase, configVars, cacheDirectory, cacheVars, inflightItems, now,
                        activeOrg, calls, hist>>

Open == probe.cp \in {"running", "killed"}

\* cp.stdout.on('data') (244)
StdoutData ==
    /\ Open
    /\ Len(probe.out) < Len(probe.text)
    /\ probe' = [probe EXCEPT !.out = @ \o <<probe.text[Len(probe.out) + 1]>>]
    /\ RunFrame

\* cp.stderr.on('data') (245-249)
StderrData ==
    /\ Open
    /\ probe.err = <<>> /\ probe.errText # <<>>
    /\ probe' = [probe EXCEPT !.err = probe.errText]
    /\ RunFrame

\* token.onCancellationRequested (239-242)
CancellationRequested ==
    /\ ~probe.cancelled
    /\ probe' = [probe EXCEPT !.cancelled = TRUE,
                              !.cp = IF @ = "running" THEN "killed" ELSE @,
                              !.promise = onCancellationRequested(@)]
    /\ RunFrame

\* cp.on('error') (251): the spawn failed, or the kill did
ProcError ==
    /\ Open
    /\ probe.cp = "running" => probe.out = <<>> /\ probe.err = <<>>
    /\ probe' = [probe EXCEPT !.cp = IF @ = "running" THEN "error" ELSE @,
                              !.promise = settle(@, Failed(PlainError(<<"Error: spawn sf">>)))]
    /\ RunFrame

\* cp.on('close') (253-292)
ProcClosed(code) ==
    /\ probe.cp \in {"running", "killed", "error"}
    /\ probe.cp = "error" => code # <<0>>
    /\ probe' = [probe EXCEPT !.cp = "closed", !.code = code,
                              !.promise = settle(@, onClose(code, probe.out, probe.err))]
    /\ RunFrame

NextRun ==
    \/ StdoutData
    \/ StderrData
    \/ CancellationRequested
    \/ ProcError
    \/ \E code \in ExitCodes : ProcClosed(code)

SpecRun == InitRun /\ [][NextRun]_vars

(***************************************************************************)
(* Claims about the request coalescer, checked under SpecConc.             *)
(***************************************************************************)
Settled(c) == calls[c].pc = "done"
InFetchBranch(c) == calls[c].pc \in {"fetch", "save", "join"}
OwnerOf(c) == IF calls[c].from = "inflight" THEN calls[c].waitsOn ELSE c
SameKey(c1, c2) == keyOf(c1) # NoKey /\ keyOf(c1) = keyOf(c2)
Enabled2(c1, c2) == calls[c1].cachingEnabled /\ calls[c2].cachingEnabled

\* C1 as stated: any two getMetadataItems calls for one key that overlap in
\* time, with caching enabled and no fresh entry for the key when they
\* start, start exactly one process between them and settle identically.
C1_OverlappingCallsShareOneProcess ==
    \A c1, c2 \in Calls :
        ( /\ c1 # c2
          /\ {c1, c2} \in hist.overlap
          /\ {c1, c2} \subseteq hist.cold
          /\ Enabled2(c1, c2)
          /\ SameKey(c1, c2)
          /\ Settled(c1) /\ Settled(c2) )
        => /\ calls[c1].spawned + calls[c2].spawned = 1
           /\ calls[c1].result = calls[c2].result

\* C1 amended: getMetadataItems calls with caching enabled for one key that
\* are in the fetch branch (lines 502-527) at the same time share one fetch:
\* one of them started the only process, each of the others found the key in
\* inflightItems, started no process, and settles when and as the owner does.
C1_Coalescing ==
    /\ \A c1, c2 \in Calls :
          (Enabled2(c1, c2) /\ SameKey(c1, c2) /\ InFetchBranch(c1) /\ InFetchBranch(c2))
          => OwnerOf(c1) = OwnerOf(c2)
    /\ \A c \in Calls :
          (calls[c].from = "inflight" /\ calls[c].cachingEnabled)
          => /\ calls[c].spawned = 0
             /\ calls[OwnerOf(c)].spawned = 1
             /\ keyOf(OwnerOf(c)) = keyOf(c)
             /\ Settled(c) <=> Settled(OwnerOf(c))
             /\ calls[c].result = calls[OwnerOf(c)].result

\* two calls joined the fetch of a third, or (with two calls) one joined the
\* other, and the shared fetch has resolved for all of them
C1_Witness ==
    \E c \in Calls :
        /\ calls[c].from = "inflight"
        /\ calls[c].cachingEnabled
        /\ Settled(c)
        /\ calls[c].result.state = "resolved"
        /\ calls[OwnerOf(c)].from = "fetch"

\* C2 as stated: at most one item-list fetch process runs per cache key.
C2_OneProcessPerKey ==
    \A c1, c2 \in Calls :
        (c1 # c2 /\ calls[c1].pc = "fetch" /\ calls[c2].pc = "fetch") => ~SameKey(c1, c2)

\* C2 amended: among the calls that read enableCache = true, at most one
\* item-list fetch process runs per cache key.
C2_OneProcessPerKeyWhenCaching ==
    \A c1, c2 \in Calls :
        (c1 # c2 /\ calls[c1].pc = "fetch" /\ calls[c2].pc = "fetch" /\ Enabled2(c1, c2))
        => ~SameKey(c1, c2)

\* a process runs for a key while a second call with caching enabled waits
\* for it instead of running its own
C2_Witness ==
    \E c1, c2 \in Calls :
        /\ calls[c1].pc = "fetch" /\ calls[c2].pc = "join" /\ calls[c2].waitsOn = c1
        /\ Enabled2(c1, c2) /\ SameKey(c1, c2)

(***************************************************************************)
(* Claims about the cache, checked under Spec.                             *)
(***************************************************************************)
\* the step runs applyConfigSettings: line 357 of activate, or the
\* configuration listener of line 360
RunsApplyConfigSettings ==
    \/ phase = "init" /\ phase' = "loading"
    \/ phase # "init" /\ <<enableCache, cacheTtlDays>>' # <<enableCache, cacheTtlDays>>

\* C3: whenever applyConfigSettings runs with enableCache = false, on its
\* return the type-catalog cache is null, the item-list map is empty and the
\* cache directory holds no metadata-types-* and no metadata-items-* file.
C3_InvalidationComplete ==
    [][ (RunsApplyConfigSettings /\ ~enableCache')
        => /\ metadataTypesCache' = <<>>
           /\ metadataItemsCache' = EmptyMap
           /\ \A f \in DOMAIN disk' : ~IsCacheFile(f) ]_vars

\* call c leaves "orgId" in this step: getCurrentOrgId has returned
ResolvesOrgId(c) == calls[c].pc = "orgId" /\ calls'[c].pc # "orgId"

SameRequest(rec1, rec2) ==
    /\ rec1.op = rec2.op
    /\ rec1.metadataType = rec2.metadataType
    /\ rec1.orgId = rec2.orgId

\* C4: with caching enabled and the same org identity resolved both times,
\* when a call has returned a payload and the next call asks for the same
\* key, with no purge since the first call began and the entry's age below
\* the TTL, the second call returns the first call's payload at once and
\* starts no process.
C4_ReadThrough ==
    [][ \A c1, c2 \in Successive :
          ( /\ c1 < c2
            /\ Settled(c1) /\ calls[c1].result.state = "resolved"
            /\ ResolvesOrgId(c2)
            /\ calls[c1].orgId # NoOrg
            /\ SameRequest(calls[c1], calls'[c2])
            /\ calls[c1].cachingEnabled /\ calls[c2].cachingEnabled
            /\ c1 \notin hist.purged
            /\ LET ts == MemoryTs(calls[c1].op, calls[c1].orgId, calls[c1].metadataType)
               IN ts = NoTs \/ now - ts < TTL_MS )
          => /\ calls'[c2].pc = "done"
             /\ calls'[c2].result = calls[c1].result
             /\ calls'[c2].spawned = 0 ]_vars

\* the second of two successive calls for one key was answered from memory
\* with the payload the first one fetched
C4_Witness ==
    \E c1, c2 \in Successive :
        /\ c1 < c2
        /\ Settled(c1) /\ Settled(c2)
        /\ SameRequest(calls[c1], calls[c2])
        /\ calls[c1].orgId # NoOrg
        /\ calls[c1].from = "fetch" /\ calls[c2].from = "memory"
        /\ calls[c2].spawned = 0
        /\ calls[c2].result = calls[c1].result
        /\ calls[c1].result.state = "resolved"

\* the memory entry of the key of call c, as <<entry>>, or <<>>
MemoryEntry(op, orgId, metadataType) ==
    IF op = "types"
    THEN IF metadataTypesCache # <<>> /\ metadataTypesCache[1].orgId = orgId
         THEN metadataTypesCache ELSE <<>>
    ELSE IF cacheKeyOf(orgId, metadataType) \in DOMAIN metadataItemsCache
         THEN <<metadataItemsCache[cacheKeyOf(orgId, metadataType)]>> ELSE <<>>

\* the disk file of the key is absent, or is the copy of the memory entry
\* that the same write persisted (it holds the same payload)
DiskIsCopyOf(op, orgId, metadataType, entry) ==
    LET path == CachePath(op, orgId, metadataType) IN
    path \in DOMAIN disk =>
        /\ Parse(disk[path]) # <<>>
        /\ Parse(disk[path])[1].ts # NoTs
        /\ [Parse(disk[path])[1] EXCEPT !.ts = NoTs] = [entry EXCEPT !.ts = NoTs]

\* call c ends its read of the two tiers in this step
EndsRead(c) ==
    /\ calls[c].pc \in {"orgId", "disk"}
    /\ calls'[c].pc \notin {"orgId", "disk"}

\* C5: with caching enabled and an entry for the key written at T0 (in
\* memory, with at most its own copy on disk), a read at t with
\* t - T0 < TTL returns the cached payload and starts no process, and a read
\* at t with t - T0 >= TTL starts exactly one fetch process.
C5_TtlExpiryOnRead ==
    [][ \A c \in Successive :
          LET op == calls[c].op
              o == calls'[c].orgId
              t == calls[c].metadataType
              e == MemoryEntry(op, o, t)
          IN ( /\ EndsRead(c)
               /\ calls[c].cachingEnabled /\ o # NoOrg
               /\ e # <<>> /\ e[1].ts # NoTs
               /\ DiskIsCopyOf(op, o, t, e[1]) )
             => IF now - e[1].ts < TTL_MS
                THEN /\ calls'[c].pc = "done"
                     /\ calls'[c].spawned = 0
                     /\ calls'[c].result = Resolved(IF op = "types" THEN e[1].metadataTypes
                                                    ELSE e[1].items)
                ELSE /\ calls'[c].pc = "fetch"
                     /\ calls'[c].spawned = 1 ]_vars

\* C7: a call for which the identity resolver returns no identity goes
\* straight to its own fetch, reading neither tier and not touching the
\* in-flight map, and ends when the process ends, writing neither tier and
\* not touching the in-flight map.
C7_NoIdentityBypass ==
    [][ \A c \in Successive :
          /\ (ResolvesOrgId(c) /\ calls'[c].orgId = NoOrg)
             => /\ calls'[c].pc = "fetch"
                /\ calls'[c].spawned = 1
                /\ UNCHANGED <<cacheVars, inflightItems>>
          /\ (calls[c].pc = "fetch" /\ calls[c].orgId = NoOrg /\ calls'[c] # calls[c])
             => /\ calls'[c].pc = "done"
                /\ calls'[c].spawned = 1
                /\ UNCHANGED <<cacheVars, inflightItems>> ]_vars

\* with caching enabled and the answer to the first call in the cache, the
\* second call, left without identity, has fetched the same list again
C7_Witness ==
    \E c1, c2 \in Successive :
        /\ c1 < c2
        /\ Settled(c1) /\ Settled(c2)
        /\ calls[c1].op = calls[c2].op /\ calls[c1].metadataType = calls[c2].metadataType
        /\ calls[c1].orgId # NoOrg /\ calls[c2].orgId = NoOrg
        /\ calls[c1].cachingEnabled /\ calls[c2].cachingEnabled
        /\ MemoryHit(calls[c1].op, calls[c1].orgId, calls[c1].metadataType) # <<>>
        /\ calls[c2].from = "fetch" /\ calls[c2].spawned = 1
        /\ calls[c2].result.state = "resolved"

(***************************************************************************)
(* Claim about isFresh, checked under SpecFresh.                           *)
(***************************************************************************)
\* C6: isFresh holds iff the entry has no write timestamp or
\* now - writtenAt < TTL; an entry with a timestamp is stale exactly when
\* now - writtenAt >= TTL.
C6_Freshness ==
    probe.fresh # <<>> =>
        /\ probe.fresh[1] <=> (probe.ts = NoTs \/ probe.at - probe.ts < probe.ttl)
        /\ probe.ts # NoTs => (~probe.fresh[1] <=> probe.at - probe.ts >= probe.ttl)

\* an entry was judged stale at the very clock value at which its age
\* reached the TTL
C6_Witness ==
    /\ probe.fresh = <<FALSE>>
    /\ probe.ts # NoTs
    /\ probe.at - probe.ts = probe.ttl

(***************************************************************************)
(* Claims about runSfJson, checked under SpecRun.  Standard output is      *)
(* text that is no JSON, a JSON document cut short, or a whole document    *)
(* of the shape the tool emits (an object whose status is a number or      *)
(* absent).                                                                *)
(***************************************************************************)
\* the 'close' event is delivered in this step
ClosesNow == probe.cp # "closed" /\ probe'.cp = "closed"
OutIsJson == \E d \in Docs : probe.out = JsonText(d)
Cancellation == Failed(PlainError(<<"Operation cancelled">>))

\* C8: when the process exits without cancellation, runSfJson resolves iff
\* the exit code is zero and standard output parses as JSON whose status is
\* zero or absent, and then with the parsed JSON; in every other case it
\* rejects; zero exit with unparseable output rejects with the invalid-JSON
\* error.
C8_InvokerOutcome ==
    [][ (ClosesNow /\ ~probe.cancelled /\ probe.promise.state = "pending")
        => LET code == probe'.code
               ok == /\ code = <<0>>
                     /\ OutIsJson
                     /\ probe.out[2].status \in {<<>>, <<0>>}
           IN /\ probe'.promise.state = "resolved" <=> ok
              /\ ok => probe'.promise.value = <<probe.out[2]>>
              /\ ~ok => probe'.promise.state = "rejected"
              /\ (code = <<0>> /\ ~OutIsJson)
                 => probe'.promise.error[1].message = InvalidJson ]_vars

\* the process exited with code 0 and a whole document without status, and
\* runSfJson resolved with it
C8_Witness ==
    /\ probe.cp = "closed" /\ probe.code = <<0>> /\ ~probe.cancelled
    /\ probe.promise.state = "resolved"
    /\ probe.promise.value[1].status = <<>>

\* C9: the error of a rejection on exit.  On a non-zero exit code it carries
\* the exit code and the standard-error text; with parseable output also
\* the interpreted message and the JSON's code, context, status and the
\* JSON itself; with unparseable output its message is the standard-error
\* text, or else the "failed with exit N" text.  On exit 0 with non-zero
\* status it carries message, code, context, status, standard-error text
\* and JSON but no exit code.  {status 1, message INVALID_TYPE, code
\* INVALID_TYPE} gives the message "INVALID_TYPE [INVALID_TYPE]".
C9_ErrorShape ==
    [][ (ClosesNow /\ ~probe.cancelled /\ probe.promise.state = "pending"
           /\ probe'.promise.state = "rejected")
        => LET code == probe'.code
               e == probe'.promise.error[1]
               d == probe.out[2]
               human == buildHumanMessage(d)
               carriesJson == /\ e.codeStr = d.code
                              /\ e.context = d.context
                              /\ e.status = d.status
                              /\ e.rawJson = <<d>>
                              /\ e.stderr = probe.err
           IN /\ code \notin {<<>>, <<0>>}
                 => /\ e.exitCode = code
                    /\ e.stderr = probe.err
                    /\ OutIsJson => /\ carriesJson
                                    /\ human # <<>> => e.message = human
                                    /\ e.message # <<>>
                    /\ ~OutIsJson => e.message = IF probe.err # <<>> THEN probe.err
                                                 ELSE FailedWithExit(code)
              /\ (code = <<0>> /\ OutIsJson)
                 => /\ carriesJson
                    /\ e.exitCode = <<>>
                    /\ e.message = IF human # <<>> THEN human ELSE <<"Command failed">>
              /\ (OutIsJson /\ d = InvalidType)
                 => e.message = <<"INVALID_TYPE", " [", "INVALID_TYPE", "]">> ]_vars

\* the process printed the INVALID_TYPE payload and exited with code 0
C9_Witness ==
    /\ probe.cp = "closed" /\ probe.code = <<0>> /\ ~probe.cancelled
    /\ probe.out = JsonText(InvalidType)
    /\ probe.promise.state = "rejected"
    /\ probe.promise.error[1].exitCode = <<>>
    /\ probe.promise.error[1].rawJson = <<InvalidType>>

\* C10: when the token fires while the process runs, runSfJson kills the
\* process and rejects at once with "Operation cancelled"; the promise
\* settles once, so a later exit or error of the process changes nothing.
C10_Cancellation ==
    [][ /\ (probe.cp = "running" /\ ~probe.cancelled /\ probe'.cancelled)
           => /\ probe'.cp = "killed"
              /\ probe'.promise = Cancellation
        /\ probe.promise.state # "pending" => probe'.promise = probe.promise ]_vars

\* cancelled while it ran, the process then exited with code 0 and a whole
\* success document, and the outcome is still the cancellation
C10_Witness ==
    /\ probe.cancelled
    /\ probe.cp = "closed" /\ probe.code = <<0>>
    /\ OutIsJson /\ probe.out[2].status = <<0>>
    /\ probe.promise = Cancellation

(***************************************************************************)
(* Further claims about the in-flight map, checked under SpecConc.         *)
(***************************************************************************)
\* call c enters the fetch branch (line 502) in this step
ReachesInflightCheck(c) ==
    /\ calls[c].pc \in {"orgId", "disk"}
    /\ calls'[c].pc \in {"fetch", "save", "join", "done"}
    /\ calls'[c].from \in {"fetch", "inflight"}

\* a fetch for the key of c, as c will resolve it, has not settled
FetchPending(c) ==
    \E b \in Calls :
        /\ b # c
        /\ calls[b].pc \in {"fetch", "save"}
        /\ keyOf(b) # NoKey
        /\ keyOf(b) = cacheKeyOf(calls'[c].orgId, calls[c].metadataType)

\* C12: the in-flight map holds an entry only for a fetch that has not
\* settled, whether the fetch resolved, failed or was cancelled and whoever
\* awaited it; and a call that reaches the in-flight check for a key with
\* no fetch pending starts a process of its own.
C12_InflightCleanup ==
    [][ /\ \A k \in DOMAIN inflightItems' :
              /\ calls'[inflightItems'[k]].pc \in {"fetch", "save"}
              /\ cacheKeyOf(calls'[inflightItems'[k]].orgId,
                            calls'[inflightItems'[k]].metadataType) = k
        /\ \A c \in Calls :
              (ReachesInflightCheck(c) /\ ~FetchPending(c))
              => /\ calls'[c].pc = "fetch"
                 /\ calls'[c].spawned = 1 ]_vars

\* a registered fetch was cancelled, its entry is gone, and a later call
\* for the same key runs a process of its own
C12_Witness ==
    \E c1, c2 \in Calls :
        /\ Settled(c1) /\ calls[c1].from = "fetch" /\ calls[c1].cachingEnabled
        /\ calls[c1].result = Rejected("Operation cancelled")
        /\ SameKey(c1, c2)
        /\ calls[c2].pc = "fetch" /\ calls[c2].spawned = 1
        /\ keyOf(c2) \in DOMAIN inflightItems
        /\ inflightItems[keyOf(c2)] = c2

\* C13: a getMetadataItems call that read enableCache = false never
\* receives the promise of another call, never registers its own and always
\* starts its own process.
C13_NoCoalescingWhenDisabled ==
    /\ \A c \in Calls :
          (~calls[c].cachingEnabled /\ calls[c].pc \notin {"idle", "orgId"})
          => /\ calls[c].from = "fetch"
             /\ calls[c].spawned = 1
    /\ \A k \in DOMAIN inflightItems : calls[inflightItems[k]].cachingEnabled

(***************************************************************************)
(* Claims about the disk write after a fetch, checked under Spec.          *)
(***************************************************************************)
\* the payload of the memory entry of a key, as <<payload>>, or <<>>
MemoryPayload(op, orgId, metadataType) ==
    LET e == MemoryEntry(op, orgId, metadataType) IN
    IF e = <<>> THEN <<>>
    ELSE IF op = "types" THEN <<e[1].metadataTypes>> ELSE <<e[1].items>>

\* the write of call c ends in this step and has left the disk as it was
SaveEndsWithoutWrite(c) ==
    /\ calls[c].pc = "save"
    /\ calls'[c].pc # "save"
    /\ disk' = disk

\* C19: when the disk write after a fetch fails, the call still resolves
\* with the fetched payload, the memory tier is left as it is, and (unless
\* the caches were purged meanwhile) it still holds the new entry.
C19_WriteFailureSwallowed ==
    [][ \A c \in Successive :
          SaveEndsWithoutWrite(c)
          => /\ calls'[c].pc = "done"
             /\ calls'[c].result = Resolved(calls[c].items)
             /\ UNCHANGED <<metadataTypesCache, metadataItemsCache>>
             /\ c \notin hist.purged
                => MemoryPayload(calls[c].op, calls[c].orgId, calls[c].metadataType)'
                     = <<calls[c].items>> ]_vars

\* a call has resolved with the payload it fetched, the memory tier holds
\* it, and no file was written for its key
C19_Witness ==
    \E c \in Successive :
        /\ Settled(c) /\ calls[c].from = "fetch"
        /\ calls[c].cachingEnabled /\ calls[c].orgId # NoOrg
        /\ calls[c].result.state = "resolved"
        /\ MemoryPayload(calls[c].op, calls[c].orgId, calls[c].metadataType)
             = <<calls[c].result.value>>
        /\ CachePath(calls[c].op, calls[c].orgId, calls[c].metadataType) \notin DOMAIN disk

\* C20: after a successful fetch the call delivers the payload to its
\* caller without waiting for the disk write of the new entry: when the
\* process ends, the call settles in that step.
C20_FireAndForget ==
    [][ \A c \in Successive :
          (calls[c].pc = "fetch" /\ calls'[c].pc # "fetch")
          => calls'[c].pc = "done" ]_vars

(***************************************************************************)
(* SpecMsg: buildHumanMessage applied to every payload of MsgDocs: with    *)
(* and without message and code, result.messages absent, an array (empty,  *)
(* first entry with or without problem) or a string (blank or not), and    *)
(* result.files with and without failed entries.                           *)
(***************************************************************************)
MsgShapes ==
    { NoMessages,
      ArrayOf(<<>>),
      ArrayOf(<<Msg(<<"P1">>, <<>>), Msg(<<"P2">>, <<>>)>>),
      ArrayOf(<<Msg(<<>>, <<"M1">>), Msg(<<"P2">>, <<>>)>>),
      ArrayOf(<<Msg(<<>>, <<"M1">>), Msg(<<>>, <<>>)>>),
      StringOf(<<" ", "S1", " ">>),
      StringOf(<<" ">>) }

FileShapes ==
    { <<>>,
      <<File("Failed", <<"E1">>, <<>>)>>,
      <<File("Changed", <<>>, <<>>), File("Failed", <<>>, <<"P3">>)>>,
      <<File("Failed", <<>>, <<>>), File("Failed", <<"E2">>, <<>>)>>,
      <<File("Changed", <<"E3">>, <<"P4">>)>> }

MsgDocs ==
    { Doc(<<1>>, message, code, <<>>, <<>>, messages, files) :
        message \in {<<>>, <<"M">>}, code \in {<<>>, <<"C">>},
        messages \in MsgShapes, files \in FileShapes }

InitMsg ==
    /\ InitGlobals
    /\ enableCache = TRUE
    /\ cacheTtlDays = 31
    /\ disk = EmptyMap
    /\ now = 1
    /\ activeOrg = <<"X">>
    /\ \E json \in MsgDocs :
          probe = [fn |-> "buildHumanMessage", json |-> json, done |-> FALSE, out |-> <<>>]

BuildHumanMessageCalled ==
    /\ ~probe.done
    /\ probe' = [probe EXCEPT !.done = TRUE, !.out = buildHumanMessage(probe.json)]
    /\ RunFrame

NextMsg == BuildHumanMessageCalled

SpecMsg == InitMsg /\ [][NextMsg]_vars

(***************************************************************************)
(* Claim about buildHumanMessage, checked under SpecMsg.  Each rule gives  *)
(* its text, or <<>> when it does not apply; the result is the text of     *)
(* the first rule that applies.                                            *)
(***************************************************************************)
RuleMessage(json) ==
    IF json.message = <<>> THEN <<>>
    ELSE IF json.code = <<>> THEN json.message
    ELSE json.message \o <<" [">> \o json.code \o <<"]">>

JoinedEntries(items) == Join([i \in 1..Len(items) |-> MsgText(items[i])], <<"; ">>)
NoneHasProblem(items) == \A i \in 1..Len(items) : items[i].problem = <<>>

\* rule 2 as stated: the join only if none of the entries has a problem
RuleMessagesAsStated(json) ==
    LET msgs == json.result.messages IN
    IF msgs.kind = "array" /\ msgs.items # <<>>
    THEN IF msgs.items[1].problem # <<>> THEN msgs.items[1].problem
         ELSE IF NoneHasProblem(msgs.items) THEN JoinedEntries(msgs.items)
         ELSE <<>>
    ELSE IF msgs.kind = "string" THEN Trim(msgs.text)
    ELSE <<>>

\* rule 2 amended: the join whenever the first entry has no problem
RuleMessagesFirstEntry(json) ==
    LET msgs == json.result.messages IN
    IF msgs.kind = "array" /\ msgs.items # <<>>
    THEN IF msgs.items[1].problem # <<>> THEN msgs.items[1].problem
         ELSE JoinedEntries(msgs.items)
    ELSE IF msgs.kind = "string" THEN Trim(msgs.text)
    ELSE <<>>

RuleFiles(json) ==
    LET files == json.result.files
        hits == {i \in 1..Len(files) : files[i].state = "Failed" \/ files[i].error # <<>>}
    IN IF hits = {} THEN <<>>
       ELSE LET f == files[CHOOSE i \in hits : \A j \in hits : i <= j]
            IN IF f.error # <<>> THEN f.error ELSE f.problem

RuleCode(json) ==
    IF json.code = <<>> THEN <<>> ELSE <<"Command failed [">> \o json.code \o <<"]">>

FirstApplicable(texts) ==
    IF \A i \in 1..Len(texts) : texts[i] = <<>> THEN <<>>
    ELSE texts[CHOOSE i \in 1..Len(texts) :
                  texts[i] # <<>> /\ \A j \in 1..(i - 1) : texts[j] = <<>>]

\* C17 as stated: buildHumanMessage returns the result of the first rule
\* that applies, where the messages array gives its first entry's problem,
\* or, if none of its entries has a problem, the "; "-join of the entries.
C17_PriorityAsStated ==
    probe.done =>
        probe.out = FirstApplicable(<<RuleMessage(probe.json), RuleMessagesAsStated(probe.json),
                                      RuleFiles(probe.json), RuleCode(probe.json)>>)

\* C17 amended: buildHumanMessage returns the result of the first rule that
\* applies of: (1) the top-level message, with " [code]" appended when a
\* code is present; (2) result.messages: for a non-empty array the first
\* entry's problem, and if the first entry has no problem the "; "-join of
\* each entry's problem, else message, else the entry itself; for a
\* non-blank string the trimmed string; (3) the first result.files entry
\* whose state is Failed or which has an error: its error, else its
\* problem; (4) "Command failed [code]"; (5) otherwise no message.
C17_Priority ==
    probe.done =>
        probe.out = FirstApplicable(<<RuleMessage(probe.json), RuleMessagesFirstEntry(probe.json),
                                      RuleFiles(probe.json), RuleCode(probe.json)>>)

\* a payload without message whose first messages entry has no problem
\* while a later one has: the result is the join
C17_Witness ==
    /\ probe.done
    /\ probe.json.message = <<>>
    /\ probe.json.result.messages.kind = "array"
    /\ probe.json.result.messages.items # <<>>
    /\ probe.json.result.messages.items[1].problem = <<>>
    /\ ~NoneHasProblem(probe.json.result.messages.items)
    /\ probe.json.result.files # <<>>
    /\ probe.out = <<"M1", "; ", "P2">>

(***************************************************************************)
(* The cache clearing commands deleteTypesCache (lines 687-717) and        *)
(* deleteItemsCache (lines 719-756).  `probe` holds the running command:   *)
(*   pc: "idle", "orgId" (awaiting getCurrentOrgId), "readdir", "unlink",  *)
(*       "end"                                                             *)
(*   todo: the files of the readdir listing not yet visited                *)
(*   shown: the message shown at the end                                   *)
(***************************************************************************)
\* a test of line 729 that matches the entries of every org
EntryOfOrg_Any(cached, orgId) == TRUE

\* `cached.orgId === currentOrgId` (729)
EntryOfOrg(cached, orgId) == cached.orgId = orgId

\* a test of line 697 that matches the catalog of every org
CatalogOfOrg_Any(cache, orgId) == cache # <<>>

\* `metadataTypesCache?.orgId === currentOrgId` (697)
CatalogOfOrg(cache, orgId) == cache # <<>> /\ cache[1].orgId = orgId

endsWith(s, p) == Len(s) >= Len(p) /\ SubSeq(s, Len(s) - Len(p) + 1, Len(s)) = p

\* file.startsWith(`metadata-items-${currentOrgId}-`) && file.endsWith('.json') (739)
IsItemsFileOfOrg(f, orgId) ==
    /\ startsWith(f, <<"metadata-items-">> \o orgId \o <<"-">>)
    /\ endsWith(f, <<".json">>)

IdleCommand ==
    [fn |-> "delete", pc |-> "idle", cmd |-> "none", orgId |-> NoOrg, todo |-> {},
     memDeleted |-> 0, diskDeleted |-> 0, cleared |-> FALSE, shown |-> "none"]

DeleteFrame == UNCHANGED <<phase, configVars, cacheDirectory, inflightItems, now,
                           activeOrg, calls, hist>>

\* the user runs nakodx.deleteTypesCache or nakodx.deleteItemsCache (382-388)
DeleteCommand(cmd) ==
    /\ probe.pc = "idle"
    /\ probe' = [probe EXCEPT !.pc = "orgId", !.cmd = cmd]
    /\ UNCHANGED cacheVars
    /\ DeleteFrame

\* deleteTypesCache, lines 690-713, up to the await of unlink
DeleteTypesOrgId(o) ==
    /\ probe.pc = "orgId" /\ probe.cmd = "types"
    /\ o \in {activeOrg, NoOrg}
    /\ IF o = NoOrg
       THEN /\ probe' = [probe EXCEPT !.pc = "end", !.shown = "Could not determine current org ID"]
            /\ UNCHANGED metadataTypesCache
       ELSE LET inMemory == CatalogOfOrg(metadataTypesCache, o)
                onDisk == getMetadataTypesCachePath(o) \in DOMAIN disk
            IN /\ metadataTypesCache' = IF inMemory THEN <<>> ELSE metadataTypesCache
               /\ probe' = IF onDisk
                           THEN [probe EXCEPT !.pc = "unlink", !.orgId = o,
                                              !.cleared = inMemory,
                                              !.todo = {getMetadataTypesCachePath(o)}]
                           ELSE [probe EXCEPT !.pc = "end", !.orgId = o,
                                              !.cleared = inMemory,
                                              !.shown = IF inMemory THEN "cleared"
                                                        ELSE "No cache found"]
    /\ UNCHANGED <<metadataItemsCache, disk>>
    /\ DeleteFrame

\* deleteItemsCache, lines 722-737, up to the await of readdir
DeleteItemsOrgId(o) ==
    /\ probe.pc = "orgId" /\ probe.cmd = "items"
    /\ o \in {activeOrg, NoOrg}
    /\ IF o = NoOrg
       THEN /\ probe' = [probe EXCEPT !.pc = "end", !.shown = "Could not determine current org ID"]
            /\ UNCHANGED metadataItemsCache
       ELSE LET gone == {k \in DOMAIN metadataItemsCache : EntryOfOrg(metadataItemsCache[k], o)}
            IN /\ metadataItemsCache' =
                      [k \in DOMAIN metadataItemsCache \ gone |-> metadataItemsCache[k]]
               /\ probe' = [probe EXCEPT !.pc = "readdir", !.orgId = o,
                                         !.memDeleted = Cardinality(gone)]
    /\ UNCHANGED <<metadataTypesCache, disk>>
    /\ DeleteFrame

\* the message of lines 709-713 / 746-752
DeleteShown(p) ==
    IF p.cmd = "types"
    THEN IF p.cleared THEN "cleared" ELSE "No cache found"
    ELSE IF p.memDeleted + p.diskDeleted > 0 THEN "cleared" ELSE "No cache found"

\* readdir is done (737): the loop runs to its first unlink, or to its end
DeleteItemsReaddir ==
    /\ probe.pc = "readdir"
    /\ LET listed == {f \in DOMAIN disk : IsItemsFileOfOrg(f, probe.orgId)}
       IN probe' = IF listed = {}
                   THEN [probe EXCEPT !.pc = "end", !.shown = DeleteShown(probe)]
                   ELSE [probe EXCEPT !.pc = "unlink", !.todo = listed]
    /\ UNCHANGED cacheVars
    /\ DeleteFrame

\* one unlink is done (705, 740); removed = FALSE: it threw, and the catch
\* of line 714 / 753 shows the error
DeleteUnlinked(f, removed) ==
    /\ probe.pc = "unlink"
    /\ f \in probe.todo
    /\ IF removed
       THEN /\ disk' = [g \in DOMAIN disk \ {f} |-> disk[g]]
            /\ LET p == [probe EXCEPT !.todo = @ \ {f}, !.diskDeleted = @ + 1,
                                      !.cleared = TRUE]
               IN probe' = IF p.todo = {}
                           THEN [p EXCEPT !.pc = "end", !.shown = DeleteShown(p)]
                           ELSE p
       ELSE /\ UNCHANGED disk
            /\ probe' = [probe EXCEPT !.pc = "end", !.shown = "Failed to clear cache"]
    /\ UNCHANGED <<metadataTypesCache, metadataItemsCache>>
    /\ DeleteFrame

(***************************************************************************)
(* SpecDelete: one cache clearing command, run on any content of the two   *)
(* tiers: catalogs and item lists of two orgs, in memory and on disk, and  *)
(* a file of the directory that is no cache file.                          *)
(***************************************************************************)
DeleteOrgs == {<<"X">>, <<"Y">>}

ItemsOf(o, t) == ItemsEntry(o, t, Payload(o, t, 1), 1)
CatalogOf(o) == TypesEntry(o, Payload(o, <<>>, 1), 1)

MemoryItemLists ==
    { [k \in {cacheKeyOf(e.orgId, e.metadataType) : e \in es} |->
          CHOOSE e \in es : cacheKeyOf(e.orgId, e.metadataType) = k] :
      es \in SUBSET {ItemsOf(<<"X">>, <<"A">>), ItemsOf(<<"X">>, <<"B", "-">>),
                     ItemsOf(<<"Y">>, <<"B", "-">>)} }

DiskFile(name, content) == [name |-> name, content |-> content]

DiskFiles ==
    { DiskFile(getMetadataItemsCachePath(e.orgId, e.metadataType), Stringify(e, 1)) :
        e \in {ItemsOf(<<"X">>, <<"A">>), ItemsOf(<<"X">>, <<"B", "-">>),
               ItemsOf(<<"Y">>, <<"A">>)} }
    \cup { DiskFile(getMetadataTypesCachePath(o), Stringify(CatalogOf(o), 1)) : o \in DeleteOrgs }
    \cup { DiskFile(<<"metadata-items-", "X", "-", "A", ".tmp">>, Garbage) }

Directories ==
    { [f \in {d.name : d \in ds} |-> (CHOOSE d \in ds : d.name = f).content] :
      ds \in SUBSET DiskFiles }

InitDelete ==
    /\ phase = "active"
    /\ TTL_MS = 30 * DayMs
    /\ cacheDirectory = TRUE
    /\ metadataTypesCache \in {<<>>} \cup {<<CatalogOf(o)>> : o \in DeleteOrgs}
    /\ metadataItemsCache \in MemoryItemLists
    /\ inflightItems = EmptyMap
    /\ calls = [c \in Calls |-> IdleCall]
    /\ hist = [purged |-> {}, overlap |-> {}, cold |-> {}]
    /\ enableCache = TRUE
    /\ cacheTtlDays = 31
    /\ disk \in Directories
    /\ now = 1
    /\ activeOrg = <<"X">>
    /\ probe = IdleCommand

NextDelete ==
    \/ \E cmd \in {"types", "items"} : DeleteCommand(cmd)
    \/ \E o \in DeleteOrgs \cup {NoOrg} : DeleteTypesOrgId(o)
    \/ \E o \in DeleteOrgs \cup {NoOrg} : DeleteItemsOrgId(o)
    \/ DeleteItemsReaddir
    \/ \E f \in DOMAIN disk, removed \in BOOLEAN : DeleteUnlinked(f, removed)

SpecDelete == InitDelete /\ [][NextDelete]_vars

(***************************************************************************)
(* Claims about the cache clearing commands, checked under SpecDelete.     *)
(* A command that ends with the error of a failed unlink has stopped       *)
(* half-way; what a command deletes is stated for the commands that end    *)
(* without error.                                                          *)
(***************************************************************************)
EndsWithoutError(cmd) ==
    /\ probe.cmd = cmd
    /\ probe.pc # "end" /\ probe'.pc = "end"
    /\ probe'.shown \in {"cleared", "No cache found"}

\* C15: deleteItemsCache for org X removes every memory entry whose orgId
\* is X, of whatever type, leaves the entries of other orgs in place, and
\* has deleted every file metadata-items-X-*.json when it ends.
C15_DeleteItemsCache ==
    [][ /\ (probe.cmd = "items" /\ probe.pc = "orgId" /\ probe'.pc = "readdir")
           => LET X == probe'.orgId IN
              /\ \A k \in DOMAIN metadataItemsCache' : metadataItemsCache'[k].orgId # X
              /\ \A k \in DOMAIN metadataItemsCache :
                    metadataItemsCache[k].orgId # X
                    => /\ k \in DOMAIN metadataItemsCache'
                       /\ metadataItemsCache'[k] = metadataItemsCache[k]
        /\ EndsWithoutError("items")
           => \A f \in DOMAIN disk' :
                 ~(/\ startsWith(f, <<"metadata-items-">> \o probe'.orgId \o <<"-">>)
                   /\ f[Len(f)] = ".json") ]_vars

\* the scenario: the files of types A and B- of org X are removed, and of
\* the memory entries X:A and Y:B- only X:A
C15_Witness ==
    /\ probe.cmd = "items" /\ probe.pc = "end" /\ probe.shown = "cleared"
    /\ probe.orgId = <<"X">>
    /\ probe.memDeleted = 1 /\ probe.diskDeleted = 2
    /\ DOMAIN metadataItemsCache = {cacheKeyOf(<<"Y">>, <<"B", "-">>)}
    /\ getMetadataItemsCachePath(<<"X">>, <<"A">>) \notin DOMAIN disk
    /\ getMetadataItemsCachePath(<<"X">>, <<"B", "-">>) \notin DOMAIN disk
    /\ getMetadataItemsCachePath(<<"Y">>, <<"A">>) \in DOMAIN disk

\* C16: deleteTypesCache for org X sets the in-memory catalog to null only
\* if its orgId is X, has deleted the file metadata-types-X.json when it
\* ends, and changes neither the item-list map nor any other file.
C16_DeleteTypesCache ==
    [][ probe'.cmd = "types"
        => /\ metadataItemsCache' = metadataItemsCache
           /\ metadataTypesCache' # metadataTypesCache
              => /\ metadataTypesCache' = <<>>
                 /\ metadataTypesCache[1].orgId = probe'.orgId
           /\ (probe.pc = "orgId" /\ probe'.orgId # NoOrg)
              => (metadataTypesCache' = <<>> \/ metadataTypesCache'[1].orgId # probe'.orgId)
           /\ \A f \in DOMAIN disk :
                 f # getMetadataTypesCachePath(probe'.orgId)
                 => (f \in DOMAIN disk' /\ disk'[f] = disk[f])
           /\ DOMAIN disk' \subseteq DOMAIN disk
           /\ EndsWithoutError("types")
              => getMetadataTypesCachePath(probe'.orgId) \notin DOMAIN disk' ]_vars

\* the catalog of another org stayed in memory, the file of org X is gone
\* and the other files are still there
C16_Witness ==
    /\ probe.cmd = "types" /\ probe.pc = "end" /\ probe.shown = "cleared"
    /\ probe.orgId = <<"X">>
    /\ metadataTypesCache = <<CatalogOf(<<"Y">>)>>
    /\ probe.diskDeleted = 1
    /\ getMetadataTypesCachePath(<<"X">>) \notin DOMAIN disk
    /\ getMetadataTypesCachePath(<<"Y">>) \in DOMAIN disk
    /\ getMetadataItemsCachePath(<<"X">>, <<"A">>) \in DOMAIN disk

(***************************************************************************)
(* The retrieval: collectRetrieveProblems (lines 655-682), the part of     *)
(* retrieveSelectedFile after runSfJson (lines 622-651) and showCliError   *)
(* (lines 100-129).                                                        *)
(***************************************************************************)
\* entries of result.messages and result.files with all the fields the
\* retrieval reads
RetrieveMsg(problem, fileName) ==
    [problem |-> problem, message |-> <<>>, fileName |-> fileName]
RetrieveFile(state, error, fullName, type, filePath) ==
    [state |-> state, error |-> error, problem |-> <<>>, fullName |-> fullName,
     type |-> type, filePath |-> filePath]

\* lines 660-665
RECURSIVE MessageProblems(_)
MessageProblems(items) ==
    IF items = <<>> THEN <<>>
    ELSE LET m == Head(items) IN
         (IF m.problem = <<>> THEN <<>>
          ELSE IF m.fileName # <<>> THEN <<m.problem \o <<" (">> \o m.fileName \o <<")">>>>
          ELSE <<m.problem>>)
         \o MessageProblems(Tail(items))

\* lines 670-675
RECURSIVE FileProblems(_)
FileProblems(files) ==
    IF files = <<>> THEN <<>>
    ELSE LET f == Head(files) IN
         (IF f.state = "Failed" /\ f.error # <<>>
          THEN IF f.fullName # <<>> /\ f.type # <<>>
               THEN <<f.error \o <<" [">> \o f.type \o <<" ">> \o f.fullName \o <<"]">>>>
               ELSE <<f.error>>
          ELSE <<>>)
         \o FileProblems(Tail(files))

\* a collector that finds no problem
collectRetrieveProblems_None(json) == <<>>

collectRetrieveProblems(json) ==
    LET msgs == json.result.messages
        out == (IF msgs.kind = "array" THEN MessageProblems(msgs.items)
                ELSE IF msgs.kind = "string" /\ Trim(msgs.text) # <<>> THEN <<Trim(msgs.text)>>
                ELSE <<>>)
               \o FileProblems(json.result.files)
        top == buildHumanMessage(json)
    IN IF top # <<>> /\ out = <<>> THEN <<top>> ELSE out

\* files.find(f => !f.filePath.endsWith('-meta.xml')) ?? files[0] (638)
RECURSIVE FirstSource(_)
FirstSource(files) ==
    IF files = <<>> THEN <<>>
    ELSE IF ~endsWith(Head(files).filePath, <<"-meta.xml">>) THEN <<Head(files)>>
    ELSE FirstSource(Tail(files))

FileToOpen(files) ==
    IF files = <<>> THEN <<>>
    ELSE LET first == IF FirstSource(files) # <<>> THEN FirstSource(files)[1] ELSE files[1]
         IN first.filePath

ErrorToast(parts) == [kind |-> "error", parts |-> parts]
InfoToast(parts) == [kind |-> "info", parts |-> parts]

\* logErr (93) and pretty (95-97)
logErr(msg) == <<"[ERROR] ">> \o msg
pretty(obj) == JsonText(obj)

\* the lines showCliError appends to the output channel (114-119, 128)
showCliErrorLog(prefix, err) ==
    IF err.name = "SfCliError"
    THEN <<logErr(prefix)>>
         \o (IF err.stderr # <<>> THEN <<logErr(<<"stderr: ">> \o Trim(err.stderr))>> ELSE <<>>)
         \o (IF err.rawJson # <<>> THEN <<logErr(<<"sf JSON:">>), pretty(err.rawJson[1])>>
             ELSE <<>>)
    ELSE <<logErr(prefix \o <<": ">> \o err.message)>>

\* the toast of showCliError (104-111, 124-125)
showCliError(prefix, err) ==
    IF err.name # "SfCliError" THEN ErrorToast(<<prefix, <<"* ">> \o err.message>>)
    ELSE
    ErrorToast(<<prefix>>
               \o (IF err.message # <<>> THEN <<<<"* ">> \o err.message>> ELSE <<>>)
               \o (IF err.codeStr # <<>> THEN <<<<"* Code: ">> \o err.codeStr>> ELSE <<>>)
               \o (IF err.context # <<>> THEN <<<<"* Context: ">> \o err.context>> ELSE <<>>)
               \o (IF err.exitCode # <<>>
                   THEN <<<<"* Exit: ", ToString(err.exitCode[1])>>>> ELSE <<>>))

(***************************************************************************)
(* retrieveFileFromServer (lines 402-437).  `probe` holds the run:         *)
(*   pc: "types" (410), "pickType" (417), "items" (421), "pickItem" (428), *)
(*       "retrieve" (432, 620), "end"                                      *)
(*   token: the progress notification's cancellation was requested         *)
(*   progress: the messages of progress.report                             *)
(*   workspace: a workspace folder is open                                 *)
(*   invoked: what the runSfJson of retrieveSelectedFile settled with      *)
(*   answers: what the pickers returned, <<>> for a dismissed picker       *)
(*   caught: the error the catch of line 433 received                      *)
(*   toasts: the messages shown to the user; opened: the file opened       *)
(*   log: the lines showCliError appended to the output channel            *)
(* Call 1 is the run's getMetadataTypes, call 2 its getMetadataItems.      *)
(***************************************************************************)
IdleFlow(workspace, autoOpen) ==
    [fn |-> "retrieveFileFromServer", pc |-> "types", token |-> FALSE,
     workspace |-> workspace, autoOpen |-> autoOpen, answers |-> <<>>,
     selectedMetadataType |-> <<>>, invoked |-> <<>>, result |-> <<>>,
     progress |-> <<"types">>, caught |-> <<>>, toasts |-> <<>>, log |-> <<>>,
     opened |-> <<>>]

FlowFrame == UNCHANGED <<phase, configVars, cacheDirectory, cacheVars, inflightItems, now,
                         activeOrg, calls, hist>>

\* a run that goes on after a rejected step
AfterStep_GoesOn(outcome, next) == next

\* an awaited step that rejects throws into the catch of line 433
AfterStep(outcome, next) == IF outcome.state = "resolved" THEN next ELSE "end"

\* a catch that swallows the error
Catch_Silent(p, err) == [p EXCEPT !.pc = "end", !.caught = <<err>>]

\* the catch of lines 433-435
Catch(p, err) ==
    [p EXCEPT !.pc = "end", !.caught = <<err>>,
              !.toasts = @ \o <<showCliError(<<"Failed to retrieve file">>, err)>>,
              !.log = @ \o showCliErrorLog(<<"Failed to retrieve file">>, err)]

\* the rejection of a data provider, as the error object
ErrorOf(result) == PlainError(<<result.error>>)

\* line 410, then getMetadataTypes up to its first await
FlowGetTypes ==
    /\ probe.fn = "retrieveFileFromServer" /\ probe.pc = "types"
    /\ probe.workspace
    /\ Call(1, "types", <<>>)

\* line 410 without a workspace folder: getMetadataTypes throws at line 448
FlowNoWorkspace ==
    /\ probe.fn = "retrieveFileFromServer" /\ probe.pc = "types"
    /\ ~probe.workspace
    /\ phase = "active"
    /\ probe' = Catch(probe, JsError(<<"No workspace folder open">>))
    /\ FlowFrame

\* getMetadataTypes has settled: lines 411-417, or the catch
FlowTypesReturned ==
    /\ probe.pc = "types" /\ calls[1].pc = "done"
    /\ LET pc == AfterStep(calls[1].result, "pickType") IN
       probe' = IF pc = "end" THEN Catch(probe, ErrorOf(calls[1].result))
                ELSE IF calls[1].result.state = "resolved" /\ calls[1].result.value = NoPayload
                THEN [probe EXCEPT !.pc = "end",
                                   !.toasts = @ \o <<ErrorToast(<<<<"Failed to retrieve metadata types">>>>)>>]
                ELSE [probe EXCEPT !.pc = pc, !.progress = @ \o <<pc>>]
    /\ FlowFrame

\* a picker that reports a dismissal as the first entry of the list
FlowTypePicked_Default(choice) ==
    /\ probe.pc = "pickType"
    /\ probe' = [probe EXCEPT !.pc = "items", !.answers = @ \o <<choice>>,
                              !.selectedMetadataType = IF choice = <<>> THEN <<"A">> ELSE choice,
                              !.progress = @ \o <<"items">>]
    /\ FlowFrame

\* the type picker closes (417-421); choice = <<>>: it was dismissed
FlowTypePicked(choice) ==
    /\ probe.pc = "pickType"
    /\ probe' = IF choice = <<>> THEN [probe EXCEPT !.pc = "end", !.answers = @ \o <<choice>>]
                ELSE [probe EXCEPT !.pc = "items", !.answers = @ \o <<choice>>,
                                   !.selectedMetadataType = choice,
                                   !.progress = @ \o <<"items">>]
    /\ FlowFrame

\* line 421, then getMetadataItems up to its first await
FlowGetItems ==
    /\ probe.pc = "items"
    /\ Call(2, "items", probe.selectedMetadataType)

\* getMetadataItems has settled: lines 422-428, or the catch
FlowItemsReturned ==
    /\ probe.pc = "items" /\ calls[2].pc = "done"
    /\ LET pc == AfterStep(calls[2].result, "pickItem") IN
       probe' = IF pc = "end" THEN Catch(probe, ErrorOf(calls[2].result))
                ELSE IF calls[2].result.state = "resolved" /\ calls[2].result.value = NoPayload
                THEN [probe EXCEPT !.pc = "end",
                                   !.toasts = @ \o <<ErrorToast(<<<<"Failed to retrieve items">>>>)>>]
                ELSE [probe EXCEPT !.pc = pc, !.progress = @ \o <<pc>>]
    /\ FlowFrame

\* the item picker closes (428-432, 614-620); chosen = FALSE: dismissed
FlowItemPicked(chosen) ==
    /\ probe.pc = "pickItem"
    /\ probe' = IF chosen
                THEN [probe EXCEPT !.pc = "retrieve", !.answers = @ \o <<<<"item">>>>,
                                   !.progress = @ \o <<"retrieve">>]
                ELSE [probe EXCEPT !.pc = "end", !.answers = @ \o << <<>> >>]
    /\ FlowFrame

\* retrieveSelectedFile after runSfJson has settled with `outcome`
\* (622-651), and the catch of line 433 when it throws
Retrieved(q, outcome, exists) ==
    LET p == [q EXCEPT !.invoked = <<outcome>>] IN
    IF outcome.state = "rejected" THEN Catch(p, outcome.error[1])
    ELSE LET result == outcome.value[1]
             problems == collectRetrieveProblems(result)
             path == FileToOpen(result.result.files)
         IN IF problems # <<>>
            THEN Catch([p EXCEPT !.result = <<result>>],
                       SfCliError(problems[1], <<>>, <<>>, <<>>, <<>>, <<>>, <<result>>))
            ELSE [p EXCEPT !.pc = "end", !.result = <<result>>,
                           !.toasts = @ \o <<InfoToast(<<"Successfully retrieved">>)>>,
                           !.opened = IF p.autoOpen /\ path # <<>> /\ exists
                                      THEN path ELSE <<>>]

\* the retrieval process closes
FlowRetrieveClosed(code, out, err, exists) ==
    /\ probe.pc = "retrieve"
    /\ probe' = Retrieved(probe, onClose(code, out, err), exists)
    /\ FlowFrame

\* the data provider call whose process the token can kill
FetchingCall == {c \in {1, 2} : calls[c].pc = "fetch"}

\* the user cancels the progress notification: the listener of the running
\* runSfJson (239-242) rejects it
FlowCancel ==
    /\ probe.fn = "retrieveFileFromServer"
    /\ ~probe.token /\ probe.pc # "end"
    /\ IF probe.pc = "retrieve"
       THEN /\ probe' = Retrieved([probe EXCEPT !.token = TRUE],
                                  onCancellationRequested(Pending), FALSE)
            /\ UNCHANGED <<calls, inflightItems>>
       ELSE /\ probe' = [probe EXCEPT !.token = TRUE]
            /\ IF FetchingCall # {}
               THEN Settle(calls, CHOOSE c \in FetchingCall : TRUE,
                           Rejected("Operation cancelled"))
               ELSE UNCHANGED <<calls, inflightItems>>
    /\ UNCHANGED <<phase, configVars, cacheDirectory, cacheVars, now, activeOrg, hist>>

\* a runSfJson started with a token already cancelled: its listener is
\* called at once
FlowCancelledBefore ==
    /\ probe.fn = "retrieveFileFromServer"
    /\ probe.token
    /\ IF probe.pc = "retrieve"
       THEN /\ probe' = Retrieved(probe, onCancellationRequested(Pending), FALSE)
            /\ UNCHANGED <<calls, inflightItems>>
       ELSE /\ FetchingCall # {}
            /\ Settle(calls, CHOOSE c \in FetchingCall : TRUE, Rejected("Operation cancelled"))
            /\ UNCHANGED probe
    /\ UNCHANGED <<phase, configVars, cacheDirectory, cacheVars, now, activeOrg, hist>>

(***************************************************************************)
(* SpecFlow: one run of retrieveFileFromServer after activation, with the  *)
(* cache enabled or not, empty or left by an earlier session.  Processes   *)
(* and file writes succeed or fail, the pickers are used or dismissed and  *)
(* the user may cancel at any time.                                        *)
(***************************************************************************)
FailedFoo == RetrieveFile("Failed", <<"E1">>, <<"Foo">>, <<"ApexClass">>, <<"Foo.cls">>)

RetrieveDocs ==
    { Doc(<<0>>, <<>>, <<>>, <<>>, <<>>, NoMessages,
          <<RetrieveFile("Changed", <<>>, <<"Foo">>, <<"ApexClass">>, <<"Foo.cls", "-meta.xml">>),
            RetrieveFile("Changed", <<>>, <<"Foo">>, <<"ApexClass">>, <<"Foo.cls">>)>>),
      Doc(<<0>>, <<>>, <<>>, <<>>, <<>>, NoMessages, <<>>),
      Doc(<<0>>, <<>>, <<>>, <<>>, <<>>, NoMessages, <<FailedFoo>>),
      Doc(<<0>>, <<>>, <<>>, <<>>, <<>>, NoMessages,
          <<RetrieveFile("Failed", <<>>, <<"Foo">>, <<"ApexClass">>, <<"Foo.cls">>)>>),
      Doc(<<0>>, <<>>, <<>>, <<>>, <<>>, NoMessages,
          <<RetrieveFile("Failed", <<"E2">>, <<>>, <<"ApexClass">>, <<>>), FailedFoo>>),
      Doc(<<0>>, <<>>, <<>>, <<>>, <<>>,
          ArrayOf(<<RetrieveMsg(<<>>, <<"a.cls">>), RetrieveMsg(<<"P1">>, <<"b.cls">>),
                    RetrieveMsg(<<"P2">>, <<>>)>>),
          <<FailedFoo>>),
      Doc(<<0>>, <<>>, <<>>, <<>>, <<>>, StringOf(<<" ", "S1", " ">>), <<>>),
      Doc(<<0>>, <<"W">>, <<>>, <<>>, <<>>, NoMessages, <<>>),
      InvalidType }

RetrieveOutputs == {JsonText(d) : d \in RetrieveDocs} \cup {<<"not json">>}

InitFlow ==
    /\ InitGlobals
    /\ enableCache \in BOOLEAN
    /\ cacheTtlDays = 31
    /\ disk \in InitDisks
    /\ now = 1
    /\ activeOrg = <<"X">>
    /\ \E workspace, autoOpen \in BOOLEAN : probe = IdleFlow(workspace, autoOpen)

FlowCalls == {1, 2}

NextFlow ==
    \/ ActivateStart /\ NoHistory
    \/ ActivateLoaded /\ NoHistory
    \/ FlowGetTypes /\ NoHistory
    \/ FlowNoWorkspace
    \/ FlowTypesReturned
    \/ \E choice \in TypeNames \cup {<<>>} : FlowTypePicked(choice)
    \/ FlowGetItems /\ NoHistory
    \/ FlowItemsReturned
    \/ \E chosen \in BOOLEAN : FlowItemPicked(chosen)
    \/ \E code \in {<<0>>, <<1>>}, out \in RetrieveOutputs, err \in StderrTexts,
          exists \in BOOLEAN : FlowRetrieveClosed(code, out, err, exists)
    \/ FlowCancel
    \/ FlowCancelledBefore
    \/ \E c \in FlowCalls, o \in {activeOrg, NoOrg} : OrgIdResolved(c, o) /\ NoHistory
    \/ \E c \in FlowCalls : DiskRead(c) /\ NoHistory
    \/ \E c \in FlowCalls, ok \in BOOLEAN : ProcClose(c, ok, now) /\ NoHistory
    \/ \E c \in FlowCalls, written \in BOOLEAN : SaveDone(c, written) /\ NoHistory

SpecFlow == InitFlow /\ [][NextFlow]_vars

(***************************************************************************)
(* Claims about the retrieval workflow                                     *)
(***************************************************************************)
\* the run ended in the catch of line 433 with the cancellation error
EndedByCancellation ==
    /\ probe.pc = "end"
    /\ probe.caught # <<>>
    /\ probe.caught[1].message = <<"Operation cancelled">>

HasErrorToast == \E i \in DOMAIN probe.toasts : probe.toasts[i].kind = "error"

\* C11: when a run of retrieveFileFromServer ends because the user
\* cancelled (the awaited runSfJson rejected with the cancellation error),
\* no error toast is shown to the user.
C11_CancellationIsSilent == EndedByCancellation => ~HasErrorToast

\* the progress messages a run has reported when it awaits call c
ProgressAt(c) == IF c = 1 THEN <<"types">> ELSE <<"types", "pickType", "items">>

\* the run has gone no further than awaiting call c
StoppedAt(c) ==
    /\ probe.pc \in {IF c = 1 THEN "types" ELSE "items", "end"}
    /\ probe.progress = ProgressAt(c)
    /\ probe.result = <<>> /\ probe.opened = <<>>
    /\ \A d \in FlowCalls : d > c => calls[d].pc = "idle" /\ calls[d].spawned = 0
    /\ \A i \in DOMAIN probe.toasts : probe.toasts[i].kind = "error"

FetchRejected(c) == calls[c].pc = "done" /\ calls[c].result.state = "rejected"

\* C14: a step in which the fetch of getMetadataTypes or getMetadataItems
\* is rejected (by cancellation or by a failure) leaves the memory tier
\* and the disk tier as they were, no later step of the run changes them,
\* and the run goes no further: no picker, no other call, no retrieval.
C14_RejectedFetchWritesNothing ==
    [][\A c \in FlowCalls :
          FetchRejected(c)' =>
              /\ calls[c].pc \in {"fetch", "done"}
              /\ UNCHANGED cacheVars
              /\ StoppedAt(c)']_vars

\* getMetadataItems was rejected after getMetadataTypes had fetched and
\* cached the catalog, and the run has ended in its catch
C14_Witness ==
    /\ FetchRejected(2) /\ calls[2].spawned = 1
    /\ calls[1].from = "fetch" /\ metadataTypesCache # <<>>
    /\ probe.pc = "end" /\ probe.caught # <<>>

\* the retrieval process exits 0 with a payload of status 0 in this step
RetrievalCloses(doc) ==
    /\ probe.pc = "retrieve" /\ probe'.pc = "end"
    /\ probe'.result = <<doc>>

\* the entries of result.messages that report a problem, and the files
\* that failed with an error text
ProblemEntries(doc) ==
    IF doc.result.messages.kind = "array"
    THEN {i \in DOMAIN doc.result.messages.items : doc.result.messages.items[i].problem # <<>>}
    ELSE {}
FailedEntries(doc) ==
    {i \in DOMAIN doc.result.files :
        doc.result.files[i].state = "Failed" /\ doc.result.files[i].error # <<>>}

\* the payload reports a problem: in its messages, in a failed file, or in
\* its top-level fields
ReportsProblem(doc) ==
    \/ ProblemEntries(doc) # {}
    \/ doc.result.messages.kind = "string" /\ Trim(doc.result.messages.text) # <<>>
    \/ FailedEntries(doc) # {}
    \/ buildHumanMessage(doc) # <<>>

\* a failed file rendered as 'error [type fullName]'
RenderedFile(f) == f.error \o <<" [">> \o f.type \o <<" ">> \o f.fullName \o <<"]">>

\* C18: when the retrieval process exits 0 with status 0 and
\* collectRetrieveProblems finds a problem, retrieveSelectedFile throws an
\* error whose message is the first problem (the first problem entry of
\* the messages if there is one, else the first failed file, rendered as
\* 'error [type fullName]') and which carries the whole payload; no success
\* message is shown and no file is opened.
C18_LogicalRetrievalFailure ==
    [][\A doc \in RetrieveDocs :
          RetrievalCloses(doc) /\ ReportsProblem(doc) =>
              /\ probe'.caught # <<>>
              /\ probe'.caught[1].rawJson = <<doc>>
              /\ probe'.toasts = probe.toasts \o
                     <<showCliError(<<"Failed to retrieve file">>, probe'.caught[1])>>
              /\ probe'.opened = <<>>
              /\ LET ms == ProblemEntries(doc)
                     fs == FailedEntries(doc)
                     m == doc.result.messages.items[CHOOSE i \in ms : \A j \in ms : i <= j]
                     f == doc.result.files[CHOOSE i \in fs : \A j \in fs : i <= j]
                 IN /\ ms # {} => /\ m.fileName = <<>> => probe'.caught[1].message = m.problem
                                  /\ m.fileName # <<>> =>
                                       probe'.caught[1].message =
                                           m.problem \o <<" (">> \o m.fileName \o <<")">>
                    /\ ms = {} /\ fs # {} /\ f.type # <<>> /\ f.fullName # <<>> =>
                           probe'.caught[1].message = RenderedFile(f)
                    /\ doc.result.files = <<FailedFoo>> /\ ms = {} =>
                           probe'.caught[1].message = <<"E1", " [", "ApexClass", " ", "Foo", "]">>
          ]_vars

\* the run ended with the failure 'E1 [ApexClass Foo]' of a payload of
\* status 0
C18_Witness ==
    /\ probe.pc = "end" /\ probe.result # <<>>
    /\ probe.result[1].status = <<0>>
    /\ probe.result[1].result.files = <<FailedFoo>>
    /\ probe.caught # <<>>
    /\ probe.caught[1].message = <<"E1", " [", "ApexClass", " ", "Foo", "]">>
    /\ probe.autoOpen

(***************************************************************************)
(* Claims about the read path and the disk tier                            *)
(***************************************************************************)
\* an entry without timestamp, or younger than the TTL
FreshNow(ts) == ts = NoTs \/ now - ts < TTL_MS

\* the entry in the disk file of the key, as <<entry>>, or <<>> when the
\* file is absent or does not parse
DiskEntry(op, orgId, metadataType) ==
    LET path == CachePath(op, orgId, metadataType) IN
    IF path \in DOMAIN disk THEN Parse(disk[path]) ELSE <<>>

PayloadOf(op, entry) == IF op = "types" THEN entry.metadataTypes ELSE entry.items

\* the external fetch of call c starts in this step
StartsFetch(c) == calls[c].pc # "fetch" /\ calls'[c].pc = "fetch"

\* C21: with caching enabled and an identity resolved, a read returns the
\* memory entry when it is present and fresh, without touching disk;
\* otherwise it reads the disk file of the key and, if its entry is fresh,
\* stores it in the memory tier and returns it; an external fetch starts
\* only when the memory tier missed and the disk tier missed; with caching
\* disabled the read goes straight to the fetch (or to a fetch in flight).
C21_TwoTierReadOrder ==
    [][ \A c \in Successive :
          LET op == calls[c].op
              o == calls'[c].orgId
              t == calls[c].metadataType
              m == MemoryEntry(op, o, t)
              d == DiskEntry(op, o, t)
              memoryHit == m # <<>> /\ FreshNow(m[1].ts)
              diskHit == d # <<>> /\ FreshNow(d[1].ts)
          IN /\ (ResolvesOrgId(c) /\ calls[c].cachingEnabled /\ o # NoOrg)
                => IF memoryHit
                   THEN /\ calls'[c].pc = "done" /\ calls'[c].from = "memory"
                        /\ calls'[c].result = Resolved(PayloadOf(op, m[1]))
                        /\ calls'[c].spawned = 0
                        /\ UNCHANGED cacheVars
                   ELSE /\ CachePath(op, o, t) \in DOMAIN disk => calls'[c].pc = "disk"
                        /\ StartsFetch(c) => CachePath(op, o, t) \notin DOMAIN disk
                        /\ UNCHANGED cacheVars
             /\ (calls[c].pc = "disk" /\ calls'[c].pc # "disk")
                => IF diskHit
                   THEN /\ calls'[c].pc = "done" /\ calls'[c].from = "disk"
                        /\ calls'[c].result = Resolved(PayloadOf(op, d[1]))
                        /\ calls'[c].spawned = 0
                        /\ MemoryEntry(op, calls[c].orgId, t)' = d
                        /\ UNCHANGED disk
                   ELSE /\ calls'[c].pc \in {"fetch", "join"}
                        /\ UNCHANGED cacheVars
             /\ (ResolvesOrgId(c) /\ ~calls[c].cachingEnabled)
                => /\ calls'[c].pc \in {"fetch", "join"}
                   /\ UNCHANGED cacheVars ]_vars

\* a call found the memory tier stale or empty, read a fresh entry from the
\* disk file and returned it, and the memory tier now holds that entry
C21_Witness ==
    \E c \in Successive :
        LET op == calls[c].op
            o == calls[c].orgId
            t == calls[c].metadataType
        IN /\ Settled(c) /\ calls[c].from = "disk" /\ calls[c].spawned = 0
           /\ MemoryEntry(op, o, t) # <<>>
           /\ MemoryEntry(op, o, t) = DiskEntry(op, o, t)
           /\ calls[c].result = Resolved(PayloadOf(op, MemoryEntry(op, o, t)[1]))

(***************************************************************************)
(* SpecDisk: the disk tier alone (lines 155-199).  One entry is saved with *)
(* saveMetadataTypesToDisk / saveMetadataItemsToDisk into a cache          *)
(* directory that is empty or holds files of an earlier session; the       *)
(* clock advances, the TTL setting changes, and any key is loaded with     *)
(* loadMetadataTypesFromDisk / loadMetadataItemsFromDisk.  `probe` holds   *)
(* the entry saved, the time of the save, and the last load: its key, its  *)
(* result and the clock and TTL it ran under.                              *)
(***************************************************************************)
MaxDiskNow == 3                    \* last clock value
DiskDays == {1, 2, 31}             \* cacheTtlDays settings tried
DiskTypeNames == {<<"A">>, <<"B", "-">>, <<"B", "_">>}

\* the entries the data providers hand to the save functions (470, 509-514)
SavedEntries ==
    {[op |-> "types", cache |-> TypesEntry(o, Payload(o, <<>>, 1), 1)] : o \in Orgs}
    \cup {[op |-> "items", cache |-> ItemsEntry(o, t, Payload(o, t, 1), 1)] :
             o \in Orgs, t \in DiskTypeNames}

EntryPath(op, cache) ==
    IF op = "types" THEN getMetadataTypesCachePath(cache.orgId)
    ELSE getMetadataItemsCachePath(cache.orgId, cache.metadataType)

DiskFrame == UNCHANGED <<phase, configVars, cacheDirectory, metadataTypesCache,
                         metadataItemsCache, inflightItems, now, activeOrg, calls, hist>>

\* saveMetadataTypesToDisk(cache) / saveMetadataItemsToDisk(cache);
\* written = FALSE: writeFile failed and the error was logged
SaveToDisk(e, written) ==
    /\ probe.saved = <<>>
    /\ disk' = IF written THEN MapSet(disk, EntryPath(e.op, e.cache), Stringify(e.cache, now))
               ELSE disk
    /\ probe' = [probe EXCEPT !.saved = <<e>>, !.written = written, !.savedAt = now]
    /\ DiskFrame

\* loadMetadataTypesFromDisk(orgId) / loadMetadataItemsFromDisk(orgId, metadataType)
LoadedFromDisk(op, orgId, metadataType) ==
    /\ probe' = [probe EXCEPT !.op = op, !.orgId = orgId,
                              !.metadataType = metadataType,
                              !.loaded = LoadFromDisk(CachePath(op, orgId, metadataType)),
                              !.at = now, !.ttl = TTL_MS]
    /\ UNCHANGED disk
    /\ DiskFrame

DiskTick ==
    /\ now < MaxDiskNow
    /\ now' = now + 1
    /\ UNCHANGED <<phase, configVars, cacheDirectory, cacheVars, inflightItems,
                   activeOrg, calls, hist, probe>>

InitDisk ==
    /\ InitGlobals
    /\ enableCache = TRUE
    /\ cacheTtlDays = 31
    /\ disk \in InitDisks \cup {GarbageDisk}
    /\ now = 1
    /\ activeOrg = <<"X">>
    /\ probe = [fn |-> "disk", saved |-> <<>>, written |-> FALSE, savedAt |-> 0,
                op |-> "none", orgId |-> NoOrg, metadataType |-> <<>>, loaded |-> <<>>,
                at |-> 0, ttl |-> 0]

NextDisk ==
    \/ \E e \in SavedEntries, written \in BOOLEAN : SaveToDisk(e, written)
    \/ \E o \in Orgs : LoadedFromDisk("types", o, <<>>)
    \/ \E o \in Orgs, t \in DiskTypeNames : LoadedFromDisk("items", o, t)
    \/ DiskTick
    \/ \E days \in DiskDays : FreshTtlChanged(days)

SpecDisk == InitDisk /\ [][NextDisk]_vars

\* a load of the key of the saved entry happens in this step
LoadsSavedKey ==
    /\ probe.saved # <<>> /\ probe'.saved = probe.saved
    /\ probe' # probe
    /\ probe'.op = probe.saved[1].op
    /\ probe'.orgId = probe.saved[1].cache.orgId
    /\ probe'.op = "items" => probe'.metadataType = probe.saved[1].cache.metadataType

DismissesPicker ==
    /\ probe.pc \in {"pickType", "pickItem"}
    /\ probe'.answers = probe.answers \o << <<>> >>

\* the run went through a picker without choosing
Dismissed(p) == \E i \in DOMAIN p.answers : p.answers[i] = <<>>

\* C23: when the user dismisses the type picker or the item picker, the run
\* ends at once with nothing shown, and from then on nothing is shown, no
\* call is started and no retrieval is invoked; the item list is fetched
\* only after a type was chosen and the retrieval is invoked only after a
\* type and an item were chosen.
C23_PickerCancellation ==
    [][ /\ DismissesPicker
           => /\ probe'.pc = "end"
              /\ probe'.toasts = probe.toasts /\ probe'.caught = <<>>
              /\ UNCHANGED <<calls, cacheVars, inflightItems>>
        /\ Dismissed(probe)
           => /\ probe.pc = "end"
              /\ UNCHANGED <<probe, calls>>
              /\ probe.toasts = <<>> /\ probe.result = <<>> /\ probe.opened = <<>>
              /\ probe.progress = <<"types", "pickType">> => calls[2].pc = "idle"
        /\ calls'[2].pc # "idle" => probe'.selectedMetadataType # <<>>
        /\ probe'.pc = "retrieve"
           => /\ probe'.selectedMetadataType # <<>>
              /\ probe'.progress = <<"types", "pickType", "items", "pickItem", "retrieve">>
      ]_vars

\* the type picker was dismissed after the catalog had been fetched
C23_Witness ==
    /\ probe.pc = "end" /\ probe.progress = <<"types", "pickType">>
    /\ calls[1].pc = "done" /\ calls[1].from = "fetch"
    /\ calls[2].pc = "idle"
    /\ probe.answers = << <<>> >>
    /\ probe.toasts = <<>>

\* the errors raised in the run: a rejected type or item fetch, a rejected
\* retrieval invocation, a retrieval payload that reports a problem, a
\* missing workspace folder
RaisedMessages ==
    {<<calls[c].result.error>> : c \in {d \in FlowCalls : FetchRejected(d)}}
    \cup (IF probe.invoked # <<>> /\ probe.invoked[1].state = "rejected"
          THEN {probe.invoked[1].error[1].message} ELSE {})
    \cup (IF probe.invoked # <<>> /\ probe.invoked[1].state = "resolved"
             /\ ReportsProblem(probe.invoked[1].value[1])
          THEN {Head(collectRetrieveProblems(probe.invoked[1].value[1]))} ELSE {})
    \cup (IF ~probe.workspace /\ probe.pc = "end"
          THEN {<<"No workspace folder open">>} ELSE {})

ErrorToasts == {i \in DOMAIN probe.toasts : probe.toasts[i].kind = "error"}

\* C24: a run never shows more than one error toast, and a run that has
\* ended after an error was raised at any of its steps has caught that
\* error and shown it, through showCliError, exactly once; a run in which
\* no error was raised has shown none.
C24_FailuresSurfaceOnce ==
    /\ Cardinality(ErrorToasts) <= 1
    /\ Cardinality(RaisedMessages) <= 1
    /\ probe.pc = "end" =>
          IF RaisedMessages = {}
          THEN ErrorToasts = {} /\ probe.caught = <<>>
          ELSE /\ probe.caught # <<>>
               /\ probe.caught[1].message \in RaisedMessages
               /\ probe.toasts = <<showCliError(<<"Failed to retrieve file">>, probe.caught[1])>>

\* the run ended with the one toast of a failed item-list fetch
C24_Witness ==
    /\ probe.pc = "end"
    /\ FetchRejected(2) /\ calls[2].result.error = "failed"
    /\ Cardinality(ErrorToasts) = 1
    /\ probe.caught # <<>> /\ probe.caught[1].message = <<"failed">>

\* text `t` occurs in line `l`
Contains(l, t) == \E i \in 1..(Len(l) - Len(t) + 1) : SubSeq(l, i, i + Len(t) - 1) = t

\* a line of the log holds the text, or the text is a field of a payload
\* whose JSON text was logged
InLog(t) ==
    \E i \in DOMAIN probe.log :
        \/ Contains(probe.log[i], t)
        \/ /\ tryParse(probe.log[i]) # <<>>
           /\ LET d == tryParse(probe.log[i])[1] IN
              t \in {d.message, d.code, d.context, buildHumanMessage(d)}
                    \cup {<<ToString(d.exitCode[j])>> : j \in DOMAIN d.exitCode}

\* C25: for every structured error presented by showCliError, the log holds
\* each of its detail fields that is set: message, code, context, exit
\* code, standard-error text and raw payload.
C25_LogReceivesAllDetail ==
    (probe.caught # <<>> /\ probe.caught[1].name = "SfCliError")
    => LET e == probe.caught[1] IN
       /\ e.message # <<>> => InLog(e.message)
       /\ e.codeStr # <<>> => InLog(e.codeStr)
       /\ e.context # <<>> => InLog(e.context)
       /\ e.exitCode # <<>> => InLog(<<ToString(e.exitCode[1])>>)
       /\ Trim(e.stderr) # <<>> => InLog(Trim(e.stderr))
       /\ e.rawJson # <<>> => InLog(JsonText(e.rawJson[1]))

(***************************************************************************)
(* Claim about the TTL setting, checked under SpecFresh                    *)
(***************************************************************************)
\* the TTL the policy gives to a setting of `days` days
PolicyTtl(days) ==
    IF days < 1 THEN DayMs
    ELSE IF days > 30 THEN 30 * DayMs
    ELSE days * DayMs

\* C26: after applyConfigSettings the TTL is the configured number of
\* days, raised to 1 day when below and lowered to 30 days when above, 30
\* days when the setting is unset, and so always within [1 day, 30 days];
\* every freshness check judges the entry against the TTL of the setting
\* current at the check, whatever the TTL was before.
C26_TtlPolicy ==
    [][ /\ cacheTtlDays' # cacheTtlDays
           => /\ TTL_MS' = PolicyTtl(cacheTtlDays')
              /\ DayMs <= TTL_MS' /\ TTL_MS' <= 30 * DayMs
        /\ (probe' # probe /\ probe'.fresh # <<>>)
           => probe'.fresh[1] = (probe.ts = NoTs \/ now - probe.ts < PolicyTtl(cacheTtlDays))
      ]_vars

\* with the setting below the range, an entry of age one day, fresh under
\* the TTL of 30 days the program started with, was judged stale
C26_Witness ==
    /\ cacheTtlDays = 0 /\ TTL_MS = DayMs
    /\ probe.fresh = <<FALSE>> /\ probe.ttl = DayMs
    /\ probe.ts # NoTs /\ probe.at - probe.ts = DayMs

(***************************************************************************)
(* SpecLoad: activation over a cache directory left by earlier sessions:   *)
(* any choice of item-list files (stamped, unstamped, unparseable, one of  *)
(* a type whose name is sanitized), a type-catalog file and a backup copy  *)
(* whose name does not end in .json.  The clock advances and the user      *)
(* toggles enableCache while activate runs.                                *)
(***************************************************************************)
LoadMenu ==
    LET items(o, t, ts) == Stringify(ItemsEntry(o, t, Payload(o, t, 0), NoTs), ts) IN
    { <<getMetadataItemsCachePath(<<"X">>, <<"A">>), items(<<"X">>, <<"A">>, 2)>>,
      <<getMetadataItemsCachePath(<<"X">>, <<"B", "-">>), items(<<"X">>, <<"B", "-">>, NoTs)>>,
      <<getMetadataItemsCachePath(<<"Y">>, <<"A">>), Garbage>>,
      <<getMetadataItemsCachePath(<<"Y">>, <<"B", "-">>), items(<<"Y">>, <<"B", "-">>, 1)>>,
      <<getMetadataItemsCachePath(<<"Y">>, <<"A">>) \o <<".bak">>, items(<<"Y">>, <<"A">>, NoTs)>>,
      <<getMetadataTypesCachePath(<<"X">>), Stringify(OldTypes, 1)>> }

DirectoryOf(files) ==
    [f \in {e[1] : e \in files} |-> (CHOOSE e \in files : e[1] = f)[2]]

InitLoad ==
    /\ InitGlobals
    /\ enableCache \in BOOLEAN
    /\ cacheTtlDays \in CfgDays
    /\ \E files \in SUBSET LoadMenu : disk = DirectoryOf(files)
    /\ now = 1
    /\ activeOrg = <<"X">>
    /\ probe = <<>>

NextLoad ==
    \/ ActivateStart /\ NoHistory
    \/ ActivateLoaded /\ NoHistory
    \/ ChangeConfig(~enableCache, cacheTtlDays) /\ NoHistory
    \/ Tick /\ NoHistory

SpecLoad == InitLoad /\ [][NextLoad]_vars

(***************************************************************************)
(* Claim about loadAllCachesFromDisk, checked under SpecLoad               *)
(***************************************************************************)
\* the metadata-items-*.json files that parse and whose entry is fresh
UsableItemFiles ==
    {f \in DOMAIN disk :
        /\ startsWith(f, <<"metadata-items-">>) /\ f[Len(f)] = ".json"
        /\ disk[f].json
        /\ FreshNow(disk[f].value.ts)}

KeyOfEntry(e) == e.orgId \o <<":">> \o e.metadataType

\* C27: loadAllCachesFromDisk puts into the memory item-list map exactly
\* the entries of the metadata-items-*.json files that parse and are
\* fresh, each under the key orgId:metadataType of the entry; the other
\* files are skipped and do not stop the scan; the memory type catalog is
\* left as it was.
C27_BulkLoad ==
    [][ (phase = "loading" /\ phase' = "active")
        => /\ DOMAIN metadataItemsCache' =
                  DOMAIN metadataItemsCache \cup {KeyOfEntry(disk[f].value) : f \in UsableItemFiles}
           /\ \A f \in UsableItemFiles :
                  metadataItemsCache'[KeyOfEntry(disk[f].value)] = disk[f].value
           /\ \A k \in DOMAIN metadataItemsCache :
                  k \notin {KeyOfEntry(disk[f].value) : f \in UsableItemFiles}
                  => metadataItemsCache'[k] = metadataItemsCache[k]
           /\ UNCHANGED <<metadataTypesCache, disk>> ]_vars

\* two item lists were loaded from a directory that also holds a stale
\* item-list file, an unparseable one, a backup copy and a type catalog
C27_Witness ==
    /\ phase = "active"
    /\ Cardinality(DOMAIN disk) = 6
    /\ DOMAIN metadataItemsCache = {<<"X", ":", "A">>, <<"X", ":", "B", "-">>}
    /\ metadataTypesCache = <<>>

(***************************************************************************)
(* The identity resolver getCurrentOrgId (lines 329-346).  `probe` holds   *)
(* one call: whether a workspace folder is open, the commands it has run   *)
(* with runSfJson, the target it read and the promise it returns.          *)
(***************************************************************************)
\* rec of auth.result.find(r => r.alias === t || r.username === t) (340)
RECURSIVE FindAuth(_, _)
FindAuth(result, target) ==
    IF result = <<>> THEN <<>>
    ELSE IF Head(result).alias = target \/ Head(result).username = target THEN <<Head(result)>>
    ELSE FindAuth(Tail(result), target)

\* cfg.result?.[0]?.value (336); <<>> when it is undefined or ""
TargetOf(cfg) ==
    IF cfg.result = <<>> \/ cfg.result[1] = <<>> THEN <<>> ELSE cfg.result[1][1].value

\* lines 339-341 for the settled `org list auth`: a result that is no array
\* makes find throw
AfterAuthList(outcome, target) ==
    IF outcome.state = "rejected" THEN outcome
    ELSE IF outcome.value[1].result = <<>> THEN Failed(JsError(<<"TypeError">>))
    ELSE LET rec == FindAuth(outcome.value[1].result[1], target) IN
         Fulfilled(IF rec = <<>> THEN NoOrg ELSE rec[1].orgId)

\* a catch that lets the error through
OrgIdCatch_Rethrow(outcome) == outcome

\* the catch of lines 342-345
OrgIdCatch(outcome) == IF outcome.state = "rejected" THEN Fulfilled(NoOrg) ELSE outcome

OrgFrame == UNCHANGED <<phase, configVars, cacheDirectory, cacheVars, inflightItems, now,
                        activeOrg, calls, hist>>

\* lines 330-335: without a workspace folder return null, else run
\* `config get target-org`
GetCurrentOrgIdCalled ==
    /\ probe.pc = "idle"
    /\ probe' = IF probe.workspace
                THEN [probe EXCEPT !.pc = "config", !.ran = <<"config get target-org">>]
                ELSE [probe EXCEPT !.pc = "done", !.promise = Fulfilled(NoOrg)]
    /\ OrgFrame

\* `config get target-org` has settled (335-339)
ConfigGetSettled(outcome) ==
    /\ probe.pc = "config"
    /\ probe' = IF outcome.state = "rejected"
                THEN [probe EXCEPT !.pc = "done", !.cfg = <<outcome>>,
                                   !.promise = OrgIdCatch(outcome)]
                ELSE IF TargetOf(outcome.value[1]) = <<>>
                THEN [probe EXCEPT !.pc = "done", !.cfg = <<outcome>>,
                                   !.promise = Fulfilled(NoOrg)]
                ELSE [probe EXCEPT !.pc = "auth", !.cfg = <<outcome>>,
                                   !.aliasOrUsername = TargetOf(outcome.value[1]),
                                   !.ran = @ \o <<"org list auth">>]
    /\ OrgFrame

\* `org list auth` has settled (339-341)
AuthListSettled(outcome) ==
    /\ probe.pc = "auth"
    /\ probe' = [probe EXCEPT !.pc = "done", !.auth = <<outcome>>,
                              !.promise = OrgIdCatch(AfterAuthList(outcome, probe.aliasOrUsername))]
    /\ OrgFrame

(***************************************************************************)
(* SpecOrg: one call of getCurrentOrgId, with or without a workspace       *)
(* folder.  Each command fails or prints a payload: the target is unset,   *)
(* empty, an alias or a username; the auth list has up to MaxAuth entries, *)
(* with or without alias and orgId, or no result array at all.             *)
(***************************************************************************)
MaxAuth == 2

ConfigPayloads ==
    {[result |-> r] : r \in {<<>>, << <<>> >>, << <<[value |-> <<>>]>> >>,
                             << <<[value |-> <<"dev">>]>> >>,
                             << <<[value |-> <<"u@x">>], [value |-> <<"dev">>]>> >>}}

AuthRecords ==
    [alias : {<<>>, <<"dev">>}, username : {<<"u@x">>, <<"v@x">>}, orgId : {NoOrg, <<"X">>, <<"Y">>}]

RECURSIVE AuthLists(_)
AuthLists(n) ==
    IF n = 0 THEN {<<>>}
    ELSE AuthLists(n - 1) \cup {Append(l, r) : l \in {k \in AuthLists(n - 1) : Len(k) = n - 1},
                                                r \in AuthRecords}

AuthPayloads == {[result |-> <<>>]} \cup {[result |-> <<l>>] : l \in AuthLists(MaxAuth)}

CommandFailed == Failed(PlainError(<<"failed">>))

InitOrg ==
    /\ InitGlobals
    /\ enableCache = TRUE
    /\ cacheTtlDays = 31
    /\ disk = EmptyMap
    /\ now = 1
    /\ activeOrg = <<"X">>
    /\ \E workspace \in BOOLEAN :
          probe = [fn |-> "getCurrentOrgId", pc |-> "idle", workspace |-> workspace,
                   ran |-> <<>>, cfg |-> <<>>, aliasOrUsername |-> <<>>, auth |-> <<>>,
                   promise |-> Pending]

NextOrg ==
    \/ GetCurrentOrgIdCalled
    \/ \E cfg \in ConfigPayloads : ConfigGetSettled(Fulfilled(cfg))
    \/ ConfigGetSettled(CommandFailed)
    \/ \E auth \in AuthPayloads : AuthListSettled(Fulfilled(auth))
    \/ AuthListSettled(CommandFailed)

SpecOrg == InitOrg /\ [][NextOrg]_vars

(***************************************************************************)
(* Claim about getCurrentOrgId, checked under SpecOrg                      *)
(***************************************************************************)
\* the positions of the auth entries whose alias or username is the target
Matching(list, target) ==
    {i \in DOMAIN list : list[i].alias = target \/ list[i].username = target}

\* C28: getCurrentOrgId never throws.  It returns no identity when no
\* workspace is open (running no command), when `config get target-org`
\* fails or names no target (running no `org list auth`), when
\* `org list auth` fails or lists no entry whose alias or username is the
\* target; otherwise it returns the orgId of the first such entry.
C28_IdentityResolver ==
    /\ probe.promise.state # "rejected"
    /\ probe.pc = "done" <=> probe.promise.state = "resolved"
    /\ probe.pc = "done" =>
          LET value == probe.promise.value[1] IN
          IF ~probe.workspace THEN value = NoOrg /\ probe.ran = <<>>
          ELSE IF probe.cfg[1].state = "rejected"
                  \/ probe.cfg[1].value[1].result \in {<<>>, << <<>> >>}
                  \/ probe.cfg[1].value[1].result[1][1].value = <<>>
          THEN value = NoOrg /\ probe.ran = <<"config get target-org">>
          ELSE /\ probe.ran = <<"config get target-org", "org list auth">>
               /\ probe.aliasOrUsername = probe.cfg[1].value[1].result[1][1].value
               /\ IF probe.auth[1].state = "rejected" \/ probe.auth[1].value[1].result = <<>>
                  THEN value = NoOrg
                  ELSE LET list == probe.auth[1].value[1].result[1]
                           found == Matching(list, probe.aliasOrUsername)
                       IN IF found = {} THEN value = NoOrg
                          ELSE value = list[CHOOSE i \in found : \A j \in found : i <= j].orgId

\* the target is a username that the second auth entry carries, and the
\* call returned that entry's orgId
C28_Witness ==
    /\ probe.pc = "done"
    /\ probe.aliasOrUsername = <<"u@x">>
    /\ probe.auth # <<>> /\ probe.auth[1].state = "resolved"
    /\ probe.auth[1].value[1].result =
          << <<[alias |-> <<"dev">>, username |-> <<"v@x">>, orgId |-> <<"X">>],
               [alias |-> <<>>, username |-> <<"u@x">>, orgId |-> <<"Y">>]>> >>
    /\ probe.promise = Fulfilled(<<"Y">>)

(***************************************************************************)
(* SpecIso: getMetadataItems called time after time for one org, with      *)
(* caching enabled, for type names of which two differ only in a           *)
(* character that getMetadataItemsCachePath replaces.  The clock advances  *)
(* and processes and file writes succeed or fail.                          *)
(***************************************************************************)
InitIso ==
    /\ Init
    /\ enableCache = TRUE
    /\ cacheTtlDays = 0
    /\ disk = EmptyMap

NextIso ==
    \/ ActivateStart /\ NoHistory
    \/ ActivateLoaded /\ NoHistory
    \/ Tick /\ NoHistory
    \/ \E c \in Calls, t \in DiskTypeNames : ~Busy /\ Call(c, "items", t) /\ NoHistory
    \/ \E c \in Calls : OrgIdResolved(c, activeOrg) /\ NoHistory
    \/ \E c \in Calls : DiskRead(c) /\ NoHistory
    \/ \E c \in Calls, ok \in BOOLEAN : ProcClose(c, ok, now) /\ NoHistory
    \/ \E c \in Calls, written \in BOOLEAN : SaveDone(c, written) /\ NoHistory

SpecIso == InitIso /\ [][NextIso]_vars

(***************************************************************************)
(* Claim about the keys of the item-list cache, checked under SpecIso      *)
(***************************************************************************)
\* C29: whenever getMetadataItems(T) for org X returns a payload from the
\* memory or the disk tier, the payload is the item list fetched for org X
\* and type T; the entries of two type names of one org, even names with
\* the same sanitized file name, are never read for one another.
C29_TypeIsolation ==
    \A c \in Calls :
        ( /\ Settled(c) /\ calls[c].op = "items"
          /\ calls[c].from \in {"memory", "disk"}
          /\ calls[c].result.state = "resolved" )
        => /\ calls[c].result.value.org = calls[c].orgId
           /\ calls[c].result.value.type = calls[c].metadataType

(***************************************************************************)
(* Claim about disabled caching, checked under SpecConc                    *)
(***************************************************************************)
\* C30: once applyConfigSettings has run with enableCache = false, and for
\* as long as enableCache stays false, the in-memory type catalog stays
\* null, the in-memory item-list map stays empty and no cache file is
\* created, whatever call completes meanwhile.
C30_DisabledCachingStaysEmpty ==
    [][ (phase # "init" /\ ~enableCache /\ ~enableCache')
        => /\ metadataTypesCache' = <<>>
           /\ metadataItemsCache' = EmptyMap
           /\ \A f \in DOMAIN disk' : IsCacheFile(f) => f \in DOMAIN disk ]_vars

(***************************************************************************)
(* Claim about the org of a written entry, checked under Spec              *)
(***************************************************************************)
\* the entries of the memory tier and the parsed entries of the cache files
StoredEntries ==
    {metadataTypesCache[i] : i \in DOMAIN metadataTypesCache}
    \cup {metadataItemsCache[k] : k \in DOMAIN metadataItemsCache}
    \cup {Parse(disk[f])[1] : f \in {g \in DOMAIN disk : Parse(disk[g]) # <<>>}}

\* C31: every type-catalog or item-list entry stored under org identity X
\* holds a payload the external tool returned while X was the active
\* target org, also when the target changes between the identity
\* resolution and the fetch of one operation.
C31_OrgConsistency ==
    \A e \in StoredEntries :
        PayloadOf(IF "items" \in DOMAIN e THEN "items" ELSE "types", e).org = e.orgId

(***************************************************************************)
(* Claim about activation with caching disabled, checked under Spec        *)
(***************************************************************************)
\* C32: when activate completes with enableCache = false, the cache
\* directory contains no cache file and the in-memory item-list map is
\* empty, whatever cache files an earlier session left.
C32_ActivationWithCachingDisabled ==
    [][ (phase = "loading" /\ phase' = "active" /\ ~enableCache')
        => /\ \A f \in DOMAIN disk' : ~IsCacheFile(f)
           /\ metadataItemsCache' = EmptyMap ]_vars

(***************************************************************************)
(* SpecCancel: two workflows, each with the cancellation token of its own  *)
(* progress notification, call getMetadataItems for the active org with    *)
(* caching enabled.  probe.token[c] is "none" while the token of workflow  *)
(* c is not cancelled, and afterwards the position the call of c was at    *)
(* when the user cancelled.  The token reaches runSfJson only in the call  *)
(* that starts the fetch (line 505); a call that returns the promise in    *)
(* flight (line 502) registers no listener.                                *)
(***************************************************************************)
\* the user cancels the progress notification of workflow c while its
\* getMetadataItems call is pending; a running runSfJson of that call has
\* its listener called (239-242)
TokenCancelled(c) ==
    /\ calls[c].pc \notin {"idle", "done"}
    /\ probe.token[c] = "none"
    /\ probe' = [probe EXCEPT !.token[c] = calls[c].pc]
    /\ IF calls[c].pc = "fetch"
       THEN Settle(calls, c, Rejected("Operation cancelled"))
       ELSE UNCHANGED <<calls, inflightItems>>
    /\ UNCHANGED <<phase, configVars, cacheDirectory, cacheVars, now, activeOrg, hist>>

\* runSfJson started with a token cancelled earlier: onCancellationRequested
\* calls the listener as soon as it is registered
CancelledBefore(c) ==
    /\ calls[c].pc = "fetch"
    /\ probe.token[c] # "none"
    /\ Settle(calls, c, Rejected("Operation cancelled"))
    /\ UNCHANGED <<phase, configVars, cacheDirectory, cacheVars, now, activeOrg, hist, probe>>

InitCancel ==
    /\ InitGlobals
    /\ enableCache = TRUE
    /\ cacheTtlDays = 31
    /\ disk = EmptyMap
    /\ now = 1
    /\ activeOrg = <<"X">>
    /\ probe = [token |-> [c \in Calls |-> "none"]]

NextCancel ==
    \/ ActivateStart /\ NoHistory
    \/ ActivateLoaded /\ NoHistory
    \/ \E c \in Calls, t \in TypeNames : Call(c, "items", t) /\ NoHistory
    \/ \E c \in Calls, o \in {activeOrg, NoOrg} : OrgIdResolved(c, o) /\ NoHistory
    \/ \E c \in Calls, ok \in BOOLEAN : ProcClose(c, ok, now) /\ NoHistory
    \/ \E c \in Calls, written \in BOOLEAN : SaveDone(c, written) /\ NoHistory
    \/ \E c \in Calls : TokenCancelled(c)
    \/ \E c \in Calls : CancelledBefore(c)

SpecCancel == InitCancel /\ [][NextCancel]_vars

(***************************************************************************)
(* Claim about cancellation and coalescing, checked under SpecCancel       *)
(***************************************************************************)
\* C33: a getMetadataItems caller is rejected with the cancellation error
\* only if its own token was cancelled, and a caller whose own token is
\* cancelled while it waits on a coalesced fetch is rejected with it.
C33_CancellationIsolation ==
    \A c \in Calls :
        Settled(c) =>
            /\ calls[c].result = Rejected("Operation cancelled") => probe.token[c] # "none"
            /\ probe.token[c] = "join" => calls[c].result = Rejected("Operation cancelled")

(***************************************************************************)
(* Claim about the timestamps of one write, checked under Spec             *)
(***************************************************************************)
\* the write of call c reaches the disk in this step
WritesFile(c) ==
    /\ calls[c].pc = "save"
    /\ LET path == CachePath(calls[c].op, calls[c].orgId, calls[c].metadataType)
       IN path \in DOMAIN disk' /\ (path \in DOMAIN disk => disk'[path] # disk[path])

\* C34: for every entry written after a fetch, the timestamp persisted in
\* the disk file equals the timestamp of the memory entry created by the
\* same write.
C34_OneTimestampPerWrite ==
    [][ \A c \in Successive :
          LET op == calls[c].op
              o == calls[c].orgId
              t == calls[c].metadataType
              e == MemoryEntry(op, o, t)
          IN (WritesFile(c) /\ e # <<>>)
             => DiskEntry(op, o, t)' = e ]_vars

(***************************************************************************)
(* Claim about the success report of a retrieval, checked under SpecFlow   *)
(***************************************************************************)
\* some entry of result.files has state 'Failed'
HasFailedFile(doc) ==
    \E i \in DOMAIN doc.result.files : doc.result.files[i].state = "Failed"

\* C35: retrieveSelectedFile shows the success message and opens a file
\* only if no entry of result.files has state 'Failed'; a payload with a
\* file of state 'Failed' is reported as a failure, whether or not the
\* file carries an error text.
C35_SuccessOnlyForCleanPayload ==
    [][\A doc \in RetrieveDocs :
          RetrievalCloses(doc) /\ HasFailedFile(doc) =>
              /\ probe'.caught # <<>>
              /\ probe'.toasts = probe.toasts \o
                     <<showCliError(<<"Failed to retrieve file">>, probe'.caught[1])>>
              /\ probe'.opened = <<>>
          ]_vars

(***************************************************************************)
(* SpecFrame: deleteItemsCache run for the current org X on caches that    *)
(* hold entries of X, of another org Y and of an org whose identity        *)
(* begins with the identity of X followed by '-'.                          *)
(***************************************************************************)
PrefixedOrg == <<"X", "-", "Y">>
FrameOrgs == {<<"X">>, <<"Y">>, PrefixedOrg}

FrameItemLists ==
    { [k \in {cacheKeyOf(o, <<"A">>) : o \in os} |->
          ItemsOf(CHOOSE o \in os : cacheKeyOf(o, <<"A">>) = k, <<"A">>)] :
      os \in SUBSET FrameOrgs }

FrameDirectories ==
    { [f \in {getMetadataItemsCachePath(o, <<"A">>) : o \in os}
             \cup {getMetadataTypesCachePath(o) : o \in cs} |->
          IF \E o \in os : f = getMetadataItemsCachePath(o, <<"A">>)
          THEN Stringify(ItemsOf(CHOOSE o \in os : f = getMetadataItemsCachePath(o, <<"A">>),
                                 <<"A">>), 1)
          ELSE Stringify(CatalogOf(CHOOSE o \in cs : f = getMetadataTypesCachePath(o)), 1)] :
      os \in SUBSET FrameOrgs, cs \in SUBSET {<<"X">>, PrefixedOrg} }

InitFrame ==
    /\ phase = "active"
    /\ TTL_MS = 30 * DayMs
    /\ cacheDirectory = TRUE
    /\ metadataTypesCache \in {<<>>, <<CatalogOf(<<"X">>)>>, <<CatalogOf(PrefixedOrg)>>}
    /\ metadataItemsCache \in FrameItemLists
    /\ inflightItems = EmptyMap
    /\ calls = [c \in Calls |-> IdleCall]
    /\ hist = [purged |-> {}, overlap |-> {}, cold |-> {}]
    /\ enableCache = TRUE
    /\ cacheTtlDays = 31
    /\ disk \in FrameDirectories
    /\ now = 1
    /\ activeOrg = <<"X">>
    /\ probe = IdleCommand

NextFrame ==
    \/ DeleteCommand("items")
    \/ \E o \in {activeOrg, NoOrg} : DeleteItemsOrgId(o)
    \/ DeleteItemsReaddir
    \/ \E f \in DOMAIN disk, removed \in BOOLEAN : DeleteUnlinked(f, removed)

SpecFrame == InitFrame /\ [][NextFrame]_vars

(***************************************************************************)
(* Claim about the frame of deleteItemsCache, checked under SpecFrame      *)
(***************************************************************************)
\* the file holds the item list of an org other than orgId
ItemsFileOfOtherOrg(f, orgId) ==
    /\ Parse(disk[f]) # <<>>
    /\ "items" \in DOMAIN Parse(disk[f])[1]
    /\ Parse(disk[f])[1].orgId # orgId

\* C36: deleteItemsCache for the current org X deletes no disk file and no
\* memory entry of a different org Y, also when the identity of X followed
\* by '-' is a prefix of the identity of Y, and it never changes the
\* type-catalog cache.
C36_DeleteItemsFrame ==
    [][ probe'.cmd = "items"
        => /\ \A k \in DOMAIN metadataItemsCache :
                 metadataItemsCache[k].orgId # probe'.orgId
                 => /\ k \in DOMAIN metadataItemsCache'
                    /\ metadataItemsCache'[k] = metadataItemsCache[k]
           /\ \A f \in DOMAIN disk :
                 ItemsFileOfOtherOrg(f, probe'.orgId)
                 => (f \in DOMAIN disk' /\ disk'[f] = disk[f])
           /\ metadataTypesCache' = metadataTypesCache
           /\ \A f \in DOMAIN disk :
                 startsWith(f, <<"metadata-types-">>)
                 => (f \in DOMAIN disk' /\ disk'[f] = disk[f]) ]_vars

====
